---------------------------- MODULE Spec2Model ----------------------------
(***************************************************************************)
(* Online feature-vector serving: OnlineStoreSqlClient (statement          *)
(* registry, statement compilation, key resolution, parallel execution,    *)
(* vector assembly, engine health check) and OnlineStoreRestClientEngine   *)
(* (batch payload checks, response decoding).                              *)
(*                                                                         *)
(* Python values are modelled as strings ("0", "1", "[1]", "None", ...),   *)
(* Python dicts as insertion-ordered sequences of [k, v] records, caller   *)
(* entries as functions from key names to values, and every attribute of   *)
(* the client as a record [kind, v] whose kind says what the attribute     *)
(* currently holds ("unset": the attribute was never assigned, reading it  *)
(* raises AttributeError).  A method is an operator from the client record *)
(* to [c |-> client after the call, exc |-> "" or the exception raised].   *)
(***************************************************************************)
EXTENDS Integers, Sequences, FiniteSets, TLC

VARIABLES
    client,     \* the OnlineStoreSqlClient object's attributes
    last,       \* the last call made on the client: operation, inputs, outcome
    tasks,      \* _execute_prep_statements: the query tasks of the call in progress
    pool,       \* free connections of the async pool during that call
    rest,       \* the last OnlineStoreRestClientEngine call: inputs, outcome
    hist        \* the initialization calls made on the client so far

vars == <<client, last, tasks, pool, rest, hist>>

---------------------------------------------------------------------------
(* Bounds of the model *)

\* entries in one batch call
MaxBatch == 2

\* init_prepared_statement calls in one run
MaxInits == 2

\* registry operations in one run
MaxSteps == 3

\* primary-key parameters of one compiled statement
MaxParams == 3

\* connections of the largest pool the options ask for
MaxPoolSize == 2

---------------------------------------------------------------------------
(* Python values *)

None == "None"

\* scalar key values a caller may pass ("0" stands for the integer 0)
Scalars == {"0", "1", "2"}

\* list values a caller may pass
Lists == {"[1]"}

\* isinstance(val, list)
IsList(v) == v \in Lists

\* bool(v) is False: None, 0, "" and empty containers
Falsy(v) == v \in {None, "0", "", "[]"}

\* a or b
PyOr(a, b) == IF Falsy(a) THEN b ELSE a

\* {} as a caller entry, a row or a vector (functions from names to values)
EmptyDict == [k \in {} |-> ""]

\* d.get(k) on a caller entry (a function from the keys present to values)
Get(d, k) == IF k \in DOMAIN d THEN d[k] ELSE None

---------------------------------------------------------------------------
(* Attribute values and insertion-ordered dicts *)

Unset == [kind |-> "unset", v |-> << >>]
NoneV == [kind |-> "None", v |-> << >>]
ListV(s) == [kind |-> "list", v |-> s]
DictV(s) == [kind |-> "dict", v |-> s]
SetV(s) == [kind |-> "set", v |-> s]
IntV(i) == [kind |-> "int", v |-> <<i>>]

RECURSIVE SeqToSet(_)
SeqToSet(s) == IF s = << >> THEN {} ELSE {Head(s)} \cup SeqToSet(Tail(s))

\* keys of a dict, in iteration (insertion) order
DictKeys(d) == [i \in 1..Len(d) |-> d[i].k]

DictHas(d, k) == \E i \in 1..Len(d) : d[i].k = k

DictAt(d, k) == d[CHOOSE i \in 1..Len(d) : d[i].k = k].v

\* d[k] = v: an existing key keeps its place, a new one goes last
DictPut(d, k, v) ==
    IF DictHas(d, k)
    THEN [i \in 1..Len(d) |-> IF d[i].k = k THEN [k |-> k, v |-> v] ELSE d[i]]
    ELSE Append(d, [k |-> k, v |-> v])

\* d.pop(k)
DictPop(d, k) == SelectSeq(d, LAMBDA e : e.k # k)

---------------------------------------------------------------------------
(* Metadata served by the backend: entities, statements, serving keys *)

\* "fvC" joins two feature groups under the same (empty) prefix, so that both
\* provide the columns id and f
FeatureViews == {"fvA", "fvB", "fvC"}

TrainingDatasets == {"td"}

\* "fvL" joins a second feature group that provides the label only: the backend
\* lists a statement for it and declares no serving key for its join position
LabelOnlyViews == {"fvL"}

\* "other" is an object that is neither a FeatureView nor a TrainingDataset
Entities == FeatureViews \cup TrainingDatasets \cup {"other"}

\* query text, as tokens: a column name, a '?' placeholder, a named bind
\* parameter ':name', a line break, a blank
Col(n) == [t |-> "col", n |-> n]
Qm == [t |-> "?", n |-> ""]
Bind(n) == [t |-> ":", n |-> n]
Nl == [t |-> "nl", n |-> ""]
Sp == [t |-> "sp", n |-> ""]

\* PreparedStatementParameter
Psp(n, i) == [name |-> n, index |-> i]

\* WHERE clause of a single-entry query: pk1 = ? AND pk2 = ? ...
RECURSIVE WhereSingle(_)
WhereSingle(pks) ==
    IF pks = << >> THEN << >>
    ELSE <<Col(Head(pks)), Qm>> \o WhereSingle(Tail(pks))

\* WHERE clause of a batch query: (pk1, pk2, ...) IN ?
WhereBatch(pks) == [i \in 1..Len(pks) |-> Col(pks[i])] \o <<Qm>>

\* query_online: SELECT <col AS prefix+col>... FROM <table> \n WHERE ...
QueryOnline(fg, prefix, pks, feat, batch) ==
    [table |-> fg,
     select |-> [i \in 1..(Len(pks) + 1) |->
                    IF i <= Len(pks)
                    THEN [col |-> pks[i], as |-> prefix \o pks[i]]
                    ELSE [col |-> feat, as |-> prefix \o feat]],
     where |-> <<Nl>> \o (IF batch THEN WhereBatch(pks) ELSE WhereSingle(pks)),
     expanding |-> FALSE]

\* ServingPreparedStatement; pks are the key columns in placeholder order,
\* params the declared (name, index) parameters in the order the backend lists them
Statement(fg, idx, prefix, params, pks, feat, batch) ==
    [feature_group_id |-> fg,
     prepared_statement_index |-> idx,
     prefix |-> prefix,
     prepared_statement_parameters |-> params,
     query_online |-> QueryOnline(fg, prefix, pks, feat, batch)]

\* get_serving_prepared_statement(entity, batch, inference_helper_columns)
ApiStatements(entity, batch, helper) ==
    LET feat == IF helper THEN "h" ELSE "f" IN
    CASE entity = "fvA" ->
            <<Statement(10, 0, "", <<Psp("id", 0)>>, <<"id">>, feat, batch),
              Statement(11, 1, "r_", <<Psp("id", 0)>>, <<"id">>, feat, batch)>>
      [] entity = "fvB" ->
            <<Statement(20, 0, "", <<Psp("ts", 1), Psp("id", 0)>>,
                        <<"id", "ts">>, feat, batch)>>
      [] entity = "fvC" ->
            <<Statement(30, 0, "", <<Psp("ts", 1), Psp("id", 0)>>,
                        <<"id", "ts">>, feat, batch),
              Statement(31, 1, "", <<Psp("id", 0)>>, <<"id">>, feat, batch)>>
      [] entity = "td" ->
            <<Statement(10, 0, "", <<Psp("id", 0)>>, <<"id">>, "f", batch)>>
      [] entity = "fvL" ->
            <<Statement(10, 0, "", <<Psp("id", 0)>>, <<"id">>, feat, batch),
              Statement(11, 1, "r_", <<Psp("id", 0)>>, <<"id">>, feat, batch)>>
      [] OTHER -> << >>

\* ServingKey
ServingKey(fname, required, idx, prefix) ==
    [feature_name |-> fname, required_serving_key |-> required,
     join_index |-> idx, prefix |-> prefix]

\* the serving keys the backend declares for an entity, in the order it lists them
ApiServingKeys(entity) ==
    CASE entity = "fvA" ->
            <<ServingKey("id", "id", 0, ""), ServingKey("id", "r_id", 1, "r_")>>
      [] entity = "fvB" ->
            <<ServingKey("ts", "ts", 0, ""), ServingKey("id", "id", 0, "")>>
      [] entity = "fvC" ->
            <<ServingKey("ts", "ts", 0, ""), ServingKey("id", "id", 0, ""),
              ServingKey("id", "r_id", 1, "")>>
      [] entity = "td" -> <<ServingKey("id", "id", 0, "")>>
      [] entity = "fvL" -> <<ServingKey("id", "id", 0, "")>>
      [] OTHER -> << >>

\* feature-group ids served by another subsystem
SkipChoices == {{}, {11}}

---------------------------------------------------------------------------
(* OnlineStoreSqlClient: construction *)

\* __init__; the attributes it does not assign do not exist yet
NewClient ==
    [prefix_by_serving_index |-> NoneV,
     prepared_statement_engine |-> NoneV,
     prepared_statements |-> NoneV,
     helper_column_prepared_statements |-> NoneV,
     pkname_by_serving_index |-> NoneV,
     valid_serving_key |-> NoneV,
     serving_key_by_serving_index |-> DictV(<< >>),
     async_pool |-> NoneV,
     external |-> TRUE,
     batch_prepared_statements |-> Unset,
     batch_helper_column_prepared_statements |-> Unset,
     feature_name_order_by_psp |-> Unset,
     skip_fg_ids |-> Unset,
     serving_keys |-> Unset]

\* the result of a method: the client it leaves and the exception it raised
Ok(c) == [c |-> c, exc |-> ""]
Raise(c, e) == [c |-> c, exc |-> e]

---------------------------------------------------------------------------
(* Statement compilation *)

\* sorted(..., key=...): insertion sort over [key, val] pairs, stable as Python's
RECURSIVE InsertByKey(_, _)
InsertByKey(x, s) ==
    IF s = << >> THEN <<x>>
    ELSE IF x.key < Head(s).key THEN <<x>> \o s
    ELSE <<Head(s)>> \o InsertByKey(x, Tail(s))

RECURSIVE SortPairs(_)
SortPairs(s) ==
    IF s = << >> THEN << >>
    ELSE InsertByKey(s[Len(s)], SortPairs(SubSeq(s, 1, Len(s) - 1)))

\* sorted(s, key=...) where keys[i] is the sort key of s[i]
SortedByKey(s, keys) ==
    LET ps == SortPairs([i \in 1..Len(s) |-> [key |-> keys[i], val |-> s[i]]])
    IN  [i \in 1..Len(ps) |-> ps[i].val]

\* [psp.name for psp in sorted(parameters, key=lambda psp: psp.index)]
PkNames(statement) ==
    LET params == statement.prepared_statement_parameters
        ps == SortedByKey(params, [i \in 1..Len(params) |-> params[i].index])
    IN  [i \in 1..Len(ps) |-> ps[i].name]

\* str(query_online).replace("\n", " ")
ReplaceNewlines(toks) == [i \in 1..Len(toks) |-> IF toks[i] = Nl THEN Sp ELSE toks[i]]

\* a substitution that names the last '?' of the text in the place of the first
ParametrizeLastPlaceholder(name, toks) ==
    IF \E i \in 1..Len(toks) : toks[i] = Qm
    THEN LET last_qm == CHOOSE i \in 1..Len(toks) :
                            /\ toks[i] = Qm
                            /\ \A j \in (i + 1)..Len(toks) : toks[j] # Qm
         IN  [i \in 1..Len(toks) |-> IF i = last_qm THEN Bind(name) ELSE toks[i]]
    ELSE toks

\* _parametrize_query: re.sub(r"^(.*?)\?", r"\1:" + name, query): the first '?'
\* of the text becomes ':name'; a text with no '?' is returned unchanged
_parametrize_query(name, toks) ==
    IF \E i \in 1..Len(toks) : toks[i] = Qm
    THEN LET first == CHOOSE i \in 1..Len(toks) :
                          /\ toks[i] = Qm
                          /\ \A j \in 1..(i - 1) : toks[j] # Qm
         IN  [i \in 1..Len(toks) |-> IF i = first THEN Bind(name) ELSE toks[i]]
    ELSE toks

RECURSIVE ParametrizeAll(_, _)
ParametrizeAll(names, toks) ==
    IF names = << >> THEN toks
    ELSE ParametrizeAll(Tail(names), _parametrize_query(Head(names), toks))

\* the body of the loop of _parametrize_prepared_statements for one statement
ParametrizeStatement(statement, batch) ==
    LET q == statement.query_online
        toks == ReplaceNewlines(q.where)
    IN  IF ~batch
        THEN [q EXCEPT !.where = ParametrizeAll(PkNames(statement), toks)]
        ELSE [q EXCEPT !.where = _parametrize_query("batch_ids", toks),
                       !.expanding = TRUE]

\* the loop of _parametrize_prepared_statements over a list of statements
RECURSIVE ParametrizeLoop(_, _, _, _)
ParametrizeLoop(stmts, skip, batch, acc) ==
    IF stmts = << >> THEN [exc |-> "", val |-> acc]
    ELSE LET st == Head(stmts) IN
         IF skip.kind = "unset" THEN [exc |-> "AttributeError", val |-> acc]
         ELSE IF skip.kind # "set" THEN [exc |-> "TypeError", val |-> acc]
         ELSE IF st.feature_group_id \in skip.v
              THEN ParametrizeLoop(Tail(stmts), skip, batch, acc)
         ELSE LET q == ParametrizeStatement(st, batch) IN
              IF batch /\ ~\E i \in 1..Len(q.where) : q.where[i] = Bind("batch_ids")
              THEN [exc |-> "ArgumentError", val |-> acc]
              ELSE ParametrizeLoop(Tail(stmts), skip, batch,
                                   DictPut(acc, st.prepared_statement_index, q))

\* _parametrize_prepared_statements(prepared_statements, batch): [exc, val];
\* val is the dict built, join position -> statement
_parametrize_prepared_statements(c, prepared_statements, batch) ==
    CASE prepared_statements.kind = "list" ->
            ParametrizeLoop(prepared_statements.v, c.skip_fg_ids, batch, << >>)
      [] prepared_statements.kind = "dict" ->
            \* iterating a dict yields its integer keys, which have no
            \* feature_group_id
            IF prepared_statements.v = << >>
            THEN [exc |-> "", val |-> << >>]
            ELSE [exc |-> "AttributeError", val |-> << >>]
      [] OTHER -> [exc |-> "TypeError", val |-> << >>]

---------------------------------------------------------------------------
(* Initialization *)

IsFeatureView(entity) == entity \in FeatureViews \cup LabelOnlyViews

IsTrainingDataset(entity) == entity \in TrainingDatasets

\* a fetch that drops the statements it holds before it looks at the entity
FetchClearingFirst(c, entity, inference_helper_columns) ==
    LET c0 == [c EXCEPT !.prepared_statements = NoneV,
                        !.helper_column_prepared_statements = NoneV]
    IN
    IF IsFeatureView(entity)
    THEN LET c1 == IF inference_helper_columns
                   THEN [c0 EXCEPT
                            !.helper_column_prepared_statements =
                                ListV(ApiStatements(entity, FALSE, TRUE)),
                            !.batch_helper_column_prepared_statements =
                                ListV(ApiStatements(entity, TRUE, TRUE))]
                   ELSE c0
         IN  Ok([c1 EXCEPT
                    !.prepared_statements = ListV(ApiStatements(entity, FALSE, FALSE)),
                    !.batch_prepared_statements =
                        ListV(ApiStatements(entity, TRUE, FALSE))])
    ELSE IF IsTrainingDataset(entity)
    THEN Ok([c0 EXCEPT
                !.prepared_statements = ListV(ApiStatements(entity, FALSE, FALSE)),
                !.batch_prepared_statements = ListV(ApiStatements(entity, TRUE, FALSE))])
    ELSE Raise(c0, "ValueError")

\* fetch_prepared_statements(entity, inference_helper_columns)
fetch_prepared_statements(c, entity, inference_helper_columns) ==
    IF IsFeatureView(entity)
    THEN LET c1 == IF inference_helper_columns
                   THEN [c EXCEPT
                            !.helper_column_prepared_statements =
                                ListV(ApiStatements(entity, FALSE, TRUE)),
                            !.batch_helper_column_prepared_statements =
                                ListV(ApiStatements(entity, TRUE, TRUE))]
                   ELSE c
         IN  Ok([c1 EXCEPT
                    !.prepared_statements = ListV(ApiStatements(entity, FALSE, FALSE)),
                    !.batch_prepared_statements =
                        ListV(ApiStatements(entity, TRUE, FALSE))])
    ELSE IF IsTrainingDataset(entity)
    THEN Ok([c EXCEPT
                !.prepared_statements = ListV(ApiStatements(entity, FALSE, FALSE)),
                !.batch_prepared_statements = ListV(ApiStatements(entity, TRUE, FALSE))])
    ELSE Raise(c, "ValueError")

\* dict([(psp.name, psp.index) for psp in parameters])
RECURSIVE NameIndex(_, _)
NameIndex(params, acc) ==
    IF params = << >> THEN acc
    ELSE NameIndex(Tail(params), DictPut(acc, Head(params).name, Head(params).index))

\* for sk in self._serving_keys: by_index[sk.join_index] = by_index.get(..., []) + [sk]
RECURSIVE GroupServingKeys(_, _)
GroupServingKeys(sks, acc) ==
    IF sks = << >> THEN acc
    ELSE LET sk == Head(sks)
             old == IF DictHas(acc, sk.join_index) THEN DictAt(acc, sk.join_index)
                    ELSE << >>
         IN  GroupServingKeys(Tail(sks), DictPut(acc, sk.join_index, old \o <<sk>>))

\* sorted(keys, key=lambda sk: order.get(sk.feature_name, 0))
SortServingKeys(sks, order) ==
    SortedByKey(sks, [i \in 1..Len(sks) |->
                        IF DictHas(order, sks[i].feature_name)
                        THEN DictAt(order, sks[i].feature_name) ELSE 0])

\* the sorting loop of init_parametrize_and_serving_utils: only the join
\* positions present in feature_name_order_by_psp are sorted
SortAllServingKeys(by_index, order_by_psp) ==
    [i \in 1..Len(by_index) |->
        IF DictHas(order_by_psp, by_index[i].k)
        THEN [k |-> by_index[i].k,
              v |-> SortServingKeys(by_index[i].v, DictAt(order_by_psp, by_index[i].k))]
        ELSE by_index[i]]

\* set([sk.feature_name ...] + [sk.required_serving_key ...])
ValidServingKeys(sks) ==
    {sks[i].feature_name : i \in 1..Len(sks)}
        \cup {sks[i].required_serving_key : i \in 1..Len(sks)}

\* the statements of init_parametrize_and_serving_utils that follow its loop;
\* they stand outside the loop body, so they run once, for the loop's last statement
ServingUtilsAfterLoop(c, statement) ==
    LET idx == statement.prepared_statement_index
        c1 == [c EXCEPT
                 !.prefix_by_serving_index =
                     DictV(DictPut(@.v, idx, statement.prefix)),
                 !.feature_name_order_by_psp =
                     DictV(DictPut(@.v, idx,
                           NameIndex(statement.prepared_statement_parameters, << >>)))]
    IN  IF c1.serving_keys.kind = "unset" THEN Raise(c1, "AttributeError")
        \* the keys derived when none are given stay in a local variable
        ELSE IF c1.serving_keys.kind # "list" THEN Raise(c1, "TypeError")
        ELSE LET grouped == GroupServingKeys(c1.serving_keys.v,
                                             c1.serving_key_by_serving_index.v)
                 sorted == SortAllServingKeys(grouped, c1.feature_name_order_by_psp.v)
             IN  Ok([c1 EXCEPT
                        !.serving_key_by_serving_index = DictV(sorted),
                        !.valid_serving_key = SetV(ValidServingKeys(c1.serving_keys.v))])

\* init_parametrize_and_serving_utils()
init_parametrize_and_serving_utils(c) ==
    LET c1 == [c EXCEPT !.prefix_by_serving_index = DictV(<< >>),
                        !.feature_name_order_by_psp = DictV(<< >>)]
        ps == c1.prepared_statements
    IN  IF ps.kind \notin {"list", "dict"} THEN Raise(c1, "TypeError")
        \* no iteration: `statement` is never bound
        ELSE IF ps.v = << >> THEN Raise(c1, "UnboundLocalError")
        \* a dict iterates over its integer keys: no feature_group_id
        ELSE IF ps.kind = "dict" THEN Raise(c1, "AttributeError")
        ELSE IF c1.skip_fg_ids.kind = "unset" THEN Raise(c1, "AttributeError")
        ELSE IF c1.skip_fg_ids.kind # "set" THEN Raise(c1, "TypeError")
        ELSE ServingUtilsAfterLoop(c1, ps.v[Len(ps.v)])

\* _set_aiomysql_connection(default_min_size, options): a pool of the size the
\* options give, else of default_min_size
_set_aiomysql_connection(c, default_min_size, options) ==
    [c EXCEPT !.async_pool =
        [kind |-> "pool",
         v |-> <<IF options = 0 THEN default_min_size ELSE options>>]]

\* the assignments of init_prepared_statement for the helper statements
InitHelperStatements(c) ==
    LET h == _parametrize_prepared_statements(
                 c, c.helper_column_prepared_statements, FALSE)
    IN  IF h.exc # "" THEN Raise(c, h.exc)
        ELSE LET c1 == [c EXCEPT !.helper_column_prepared_statements = DictV(h.val)]
                 bh == IF c1.batch_helper_column_prepared_statements.kind = "unset"
                       THEN [exc |-> "AttributeError", val |-> << >>]
                       ELSE _parametrize_prepared_statements(
                                c1, c1.batch_helper_column_prepared_statements, TRUE)
             IN  IF bh.exc # "" THEN Raise(c1, bh.exc)
                 ELSE Ok([c1 EXCEPT
                            !.batch_helper_column_prepared_statements = DictV(bh.val)])

\* init_prepared_statement(entity, external, inference_helper_columns, options)
init_prepared_statement(c, entity, external, inference_helper_columns, options) ==
    LET \* lines 146-156: the helper statements, when asked for
        WithBatchAssigned(c3) ==
            IF inference_helper_columns THEN InitHelperStatements(c3) ELSE Ok(c3)
        \* line 142; `a, _ = d` unpacks the keys of the dict: exactly two are needed
        WithBatch(uc, batch) ==
            IF batch.exc # "" THEN Raise(uc, batch.exc)
            ELSE IF Len(batch.val) # 2 THEN Raise(uc, "ValueError")
            ELSE WithBatchAssigned(
                     [uc EXCEPT !.batch_prepared_statements = IntV(batch.val[1].k)])
        \* after init_parametrize_and_serving_utils() returned u
        WithUtils(u) ==
            IF u.exc # "" THEN u
            ELSE WithBatch(u.c, _parametrize_prepared_statements(
                                    u.c, u.c.batch_prepared_statements, TRUE))
        \* line 137 assigns the single-entry dict, line 141 builds the utils
        WithSingle(c2, single) ==
            IF single.exc # "" THEN Raise(c2, single.exc)
            ELSE WithUtils(init_parametrize_and_serving_utils(
                               [c2 EXCEPT !.prepared_statements = DictV(single.val)]))
        \* after the pool was opened
        WithPool(c2) ==
            WithSingle(c2, _parametrize_prepared_statements(
                               c2, c2.prepared_statements, FALSE))
        \* after fetch_prepared_statements returned f
        WithFetched(f) ==
            IF f.exc # "" THEN f
            ELSE WithPool(_set_aiomysql_connection(
                              [f.c EXCEPT !.external = external],
                              Len(f.c.prepared_statements.v), options))
    IN  WithFetched(fetch_prepared_statements(c, entity, inference_helper_columns))

---------------------------------------------------------------------------
(* The online store *)

\* key values for which the store holds a row
StoredIds == {"0", "1"}

\* the rows of a feature group's table, each a function from column to value;
\* the table of feature group 31 holds two rows with the id 1
Table(fg) ==
    IF fg \in {20, 30}
    THEN {[id |-> i, ts |-> "1", f |-> "f" \o ToString(fg) \o "/" \o i,
           h |-> "h" \o ToString(fg) \o "/" \o i] : i \in StoredIds}
    ELSE {[id |-> i, f |-> "f" \o ToString(fg) \o "/" \o i,
           h |-> "h" \o ToString(fg) \o "/" \o i] : i \in StoredIds}
         \cup (IF fg = 31 THEN {[id |-> "1", f |-> "f31/1b", h |-> "h31/1b"]} ELSE {})

\* the tokens of a WHERE clause that carry meaning
Meaningful(toks) == SelectSeq(toks, LAMBDA t : t.t \notin {"sp", "nl"})

\* a statement the store can run: no '?' left, and for a single-entry
\* statement column and bind parameter alternate
WellFormed(q) ==
    LET w == Meaningful(q.where) IN
    /\ \A i \in 1..Len(w) : w[i] # Qm
    /\ IF q.expanding
       THEN /\ Len(w) >= 1
            /\ w[Len(w)].t = ":"
            /\ \A i \in 1..(Len(w) - 1) : w[i].t = "col"
       ELSE /\ Len(w) % 2 = 0
            /\ \A i \in 1..Len(w) : w[i].t = (IF i % 2 = 1 THEN "col" ELSE ":")

\* the bind parameters the statement names are all given
BindsGiven(q, bind_params) ==
    \A i \in 1..Len(q.where) :
        q.where[i].t = ":" => q.where[i].n \in DOMAIN bind_params

\* a stored row satisfies the WHERE clause under the bind parameters
RowMatches(q, bind_params, r) ==
    LET w == Meaningful(q.where) IN
    IF q.expanding
    THEN LET key == [i \in 1..(Len(w) - 1) |-> r[w[i].n]]
             ids == bind_params[w[Len(w)].n]
         IN  \E j \in 1..Len(ids) : ids[j] = key
    ELSE \A i \in 1..(Len(w) \div 2) : r[w[2 * i - 1].n] = bind_params[w[2 * i].n]

\* the row the statement returns for a stored row: its select list, renamed
Project(q, r) ==
    LET names == {q.select[i].as : i \in 1..Len(q.select)}
        Sel(n) == q.select[CHOOSE i \in 1..Len(q.select) : q.select[i].as = n]
    IN  [n \in names |-> r[Sel(n).col]]

\* the rows a statement selects, as a set
QueryRows(q, bind_params) ==
    {Project(q, r) : r \in {x \in Table(q.table) : RowMatches(q, bind_params, x)}}

\* every order in which the store may return a set of rows
Orderings(rows) ==
    {s \in [1..Cardinality(rows) -> rows] : \A r \in rows : \E i \in DOMAIN s : s[i] = r}

---------------------------------------------------------------------------
(* Key resolution *)

\* a _validate_serving_key that accepts every key
NoInvalidKeys(c, entry) == {}

\* _validate_serving_key: the keys of the entry that are not valid serving keys
InvalidKeys(c, entry) == {k \in DOMAIN entry : k \notin c.valid_serving_key.v}

\* any(...) in the place of all(...)
AnyValueIsList(entry) == \E k \in DOMAIN entry : IsList(entry[k])

\* all([isinstance(val, list) for val in entry.values()])
AllValuesAreLists(entry) == \A k \in DOMAIN entry : IsList(entry[k])

\* an inner loop that goes on to the next serving key when one is missing,
\* in the place of leaving the join position out
RECURSIVE ResolveKeysNoSkip(_, _, _)
ResolveKeysNoSkip(sks, entry, pk_entry) ==
    IF sks = << >> THEN [skip |-> FALSE, pk_entry |-> pk_entry]
    ELSE LET sk == Head(sks) IN
         IF sk.required_serving_key \notin DOMAIN entry
         THEN IF sk.feature_name \in DOMAIN entry
              THEN ResolveKeysNoSkip(Tail(sks), entry,
                       (sk.feature_name :> entry[sk.feature_name]) @@ pk_entry)
              ELSE ResolveKeysNoSkip(Tail(sks), entry, pk_entry)
         ELSE ResolveKeysNoSkip(Tail(sks), entry,
                  (sk.feature_name :> entry[sk.required_serving_key]) @@ pk_entry)

\* an inner loop that looks the entry up by feature_name first
RECURSIVE ResolveKeysBareFirst(_, _, _)
ResolveKeysBareFirst(sks, entry, pk_entry) ==
    IF sks = << >> THEN [skip |-> FALSE, pk_entry |-> pk_entry]
    ELSE LET sk == Head(sks) IN
         IF sk.feature_name \in DOMAIN entry
         THEN ResolveKeysBareFirst(Tail(sks), entry,
                  (sk.feature_name :> entry[sk.feature_name]) @@ pk_entry)
         ELSE IF sk.required_serving_key \in DOMAIN entry
         THEN ResolveKeysBareFirst(Tail(sks), entry,
                  (sk.feature_name :> entry[sk.required_serving_key]) @@ pk_entry)
         ELSE [skip |-> TRUE, pk_entry |-> pk_entry]

\* the inner loop of _single_vector_result over the serving keys of one join
\* position: [skip |-> next_statement, pk_entry |-> the bind parameters]
RECURSIVE ResolveKeys(_, _, _)
ResolveKeys(sks, entry, pk_entry) ==
    IF sks = << >> THEN [skip |-> FALSE, pk_entry |-> pk_entry]
    ELSE LET sk == Head(sks) IN
         IF sk.required_serving_key \notin DOMAIN entry
         THEN IF sk.feature_name \in DOMAIN entry
              THEN ResolveKeys(Tail(sks), entry,
                       (sk.feature_name :> entry[sk.feature_name]) @@ pk_entry)
              ELSE [skip |-> TRUE, pk_entry |-> pk_entry]
         ELSE ResolveKeys(Tail(sks), entry,
                  (sk.feature_name :> entry[sk.required_serving_key]) @@ pk_entry)

\* the outer loop of _single_vector_result over the join positions:
\* [exc, exec: the statements to execute, binds: their bind parameters]
RECURSIVE ResolveSingle(_, _, _, _, _)
ResolveSingle(c, idxs, objects, entry, acc) ==
    IF idxs = << >> THEN acc
    ELSE LET idx == Head(idxs) IN
         IF ~DictHas(c.serving_key_by_serving_index.v, idx)
         THEN [acc EXCEPT !.exc = "KeyError"]
         ELSE LET r == ResolveKeys(DictAt(c.serving_key_by_serving_index.v, idx),
                                   entry, EmptyDict)
              IN  IF r.skip
                  THEN ResolveSingle(c, Tail(idxs), objects, entry, acc)
                  ELSE ResolveSingle(c, Tail(idxs), objects, entry,
                           [acc EXCEPT
                              !.binds = DictPut(@, idx, r.pk_entry),
                              !.exec = DictPut(@, idx, DictAt(objects, idx))])

\* _get_result_key_serving_key(serving_keys, entry)
_get_result_key_serving_key(serving_keys, result_dict) ==
    [i \in 1..Len(serving_keys) |->
        PyOr(Get(result_dict, serving_keys[i].required_serving_key),
             Get(result_dict, serving_keys[i].feature_name))]

\* _get_result_key(primary_keys, result_dict)
_get_result_key(primary_keys, result_dict) ==
    [i \in 1..Len(primary_keys) |-> Get(result_dict, primary_keys[i])]

\* the tuple _batch_vector_results binds for one entry and one join position
EntryValuesTuple(serving_keys, e) ==
    [i \in 1..Len(serving_keys) |->
        PyOr(Get(e, serving_keys[i].required_serving_key),
             Get(e, serving_keys[i].feature_name))]

\* the first loop of _batch_vector_results over the join positions
RECURSIVE ResolveBatch(_, _, _, _, _)
ResolveBatch(c, idxs, objects, entries, acc) ==
    IF idxs = << >> THEN acc
    ELSE LET idx == Head(idxs) IN
         IF ~DictHas(c.serving_key_by_serving_index.v, idx)
         THEN ResolveBatch(c, Tail(idxs), objects, entries, acc)
         ELSE LET sks == DictAt(c.serving_key_by_serving_index.v, idx)
                  tuples == [i \in 1..Len(entries) |-> EntryValuesTuple(sks, entries[i])]
              IN  ResolveBatch(c, Tail(idxs), objects, entries,
                      [acc EXCEPT
                         !.exec = DictPut(@, idx, DictAt(objects, idx)),
                         !.binds = DictPut(@, idx, [batch_ids |-> tuples])])

---------------------------------------------------------------------------
(* Vector assembly *)

\* an update that keeps the value a name already has
RECURSIVE UpdateKeepingFirst(_, _)
UpdateKeepingFirst(vector, rows) ==
    IF rows = << >> THEN vector
    ELSE UpdateKeepingFirst(vector @@ Head(rows), Tail(rows))

\* serving_vector.update(dict(row)) for every row of one result set
RECURSIVE UpdateWithRows(_, _)
UpdateWithRows(vector, rows) ==
    IF rows = << >> THEN vector
    ELSE UpdateWithRows(Head(rows) @@ vector, Tail(rows))

\* the last loop of _single_vector_result: results is the dict
\* join position -> rows that _execute_prep_statements returned
RECURSIVE AssembleSingle(_, _)
AssembleSingle(results, vector) ==
    IF results = << >> THEN vector
    ELSE AssembleSingle(Tail(results), UpdateWithRows(vector, Head(results).v))

\* statement_results[_get_result_key(prefix_features, row)] = row, for every row
RECURSIVE StatementResults(_, _, _)
StatementResults(rows, prefix_features, acc) ==
    IF rows = << >> THEN acc
    ELSE StatementResults(Tail(rows), prefix_features,
             DictPut(acc, _get_result_key(prefix_features, Head(rows)), Head(rows)))

\* batch_results[i].update(statement_results.get(key of entries[i], {})), for every i
StitchPosition(batch_results, entries, serving_keys, statement_results) ==
    [i \in 1..Len(entries) |->
        LET key == _get_result_key_serving_key(serving_keys, entries[i]) IN
        IF DictHas(statement_results, key)
        THEN DictAt(statement_results, key) @@ batch_results[i]
        ELSE batch_results[i]]

\* the stitching loop of _batch_vector_results over the executed join positions:
\* [exc, batch_results, serving_keys_all_fg]
RECURSIVE Stitch(_, _, _, _, _)
Stitch(c, idxs, entries, parallel_results, acc) ==
    IF idxs = << >> THEN acc
    ELSE LET idx == Head(idxs)
             serving_keys == DictAt(c.serving_key_by_serving_index.v, idx)
         IN  IF c.prefix_by_serving_index.kind # "dict"
             THEN [acc EXCEPT !.exc = "TypeError"]
             ELSE IF ~DictHas(c.prefix_by_serving_index.v, idx)
             THEN [acc EXCEPT !.exc = "KeyError"]
             ELSE LET prefix == DictAt(c.prefix_by_serving_index.v, idx)
                      prefix_features ==
                          [i \in 1..Len(serving_keys) |->
                              prefix \o serving_keys[i].feature_name]
                      statement_results ==
                          StatementResults(DictAt(parallel_results, idx),
                                           prefix_features, << >>)
                  IN  Stitch(c, Tail(idxs), entries, parallel_results,
                          [acc EXCEPT
                             !.serving_keys_all_fg = @ \o serving_keys,
                             !.batch_results =
                                 StitchPosition(@, entries, serving_keys,
                                                statement_results)])

---------------------------------------------------------------------------
(* Parallel execution *)

\* a submission that stops after the first join position that has bind parameters
SubmittedFirstOnly(prepared_statements, entries) ==
    LET keys == SelectSeq(DictKeys(prepared_statements), LAMBDA k : DictHas(entries, k))
    IN  IF keys = << >> THEN << >> ELSE <<Head(keys)>>

\* the first lines of _execute_prep_statements: the statements whose join
\* position has no bind parameters are popped; one task per remaining position
SubmittedKeys(prepared_statements, entries) ==
    SelectSeq(DictKeys(prepared_statements), LAMBDA k : DictHas(entries, k))

\* asyncio.ensure_future(_query_async_sql(statement, bind parameters)) per position
SubmitTasks(prepared_statements, entries) ==
    LET keys == SubmittedKeys(prepared_statements, entries) IN
    [i \in 1..Len(keys) |->
        [k |-> keys[i], st |-> "pending", exc |-> "",
         stmt |-> DictAt(prepared_statements, keys[i]),
         bind_params |-> DictAt(entries, keys[i]),
         rows |-> << >>]]

\* results paired with the join positions in the order in which the queries
\* completed, in the place of the order in which they were submitted
ResultsByCompletion(ts) ==
    [i \in 1..Len(ts) |->
        [k |-> ts[i].k,
         v |-> IF i <= Len(last.completed)
               THEN ts[CHOOSE j \in 1..Len(ts) : ts[j].k = last.completed[i]].rows
               ELSE ts[i].rows]]

\* the dict _execute_prep_statements returns: join position -> rows
ResultsDict(ts) == [i \in 1..Len(ts) |-> [k |-> ts[i].k, v |-> ts[i].rows]]

Finished(t) == t.st \in {"done", "failed"}

\* the positions whose query task has not finished
InFlight(ts) == {ts[i].k : i \in {j \in 1..Len(ts) : ~Finished(ts[j])}}

---------------------------------------------------------------------------
(* Inputs of the serving calls *)

\* key names a caller may use; "zz" is no serving key of any entity
EntryKeys == {"id", "ts", "r_id", "zz"}

\* keys in one entry of a single-entry call
MaxEntryKeys == 2

\* the entries of single-entry calls
SingleEntries ==
    UNION {[ks -> Scalars \cup Lists] :
              ks \in {x \in SUBSET EntryKeys : Cardinality(x) <= MaxEntryKeys}}

\* the entries of batch calls
BatchEntryPool ==
    UNION {[ks -> {"0", "1"}] : ks \in SUBSET {"id", "r_id"}}
        \cup {[id |-> "2"], [zz |-> "1"], [id |-> "1", ts |-> "1"]}

\* the lists of entries of batch calls
BatchEntries == UNION {[1..n -> BatchEntryPool] : n \in 0..MaxBatch}

---------------------------------------------------------------------------
(* The call in progress *)

\* no call made yet
Idle ==
    [op |-> "", phase |-> "idle", helper |-> FALSE,
     entry |-> EmptyDict, entries |-> << >>,
     exc |-> "", msg |-> "", err_key |-> "", err_valid |-> {},
     ret |-> EmptyDict, ret_list |-> << >>, ret_keys |-> << >>,
     dispatched |-> {}, open |-> {}, first_exc |-> "",
     engine_before |-> NoneV,
     completed |-> << >>,
     stmts_in |-> << >>, binds_in |-> << >>, ret_dict |-> << >>]

\* a call that waits while an initialization is between two of its statements
CanCallOutsideInit ==
    /\ last.phase = "idle"
    /\ "pc" \in DOMAIN hist => hist.pc \in {0, 157}

\* a call may start when the caller holds no call's outcome
CanCall == last.phase = "idle"

\* the call ends by raising exc
Raised(call, exc, msg) == [call EXCEPT !.phase = "done", !.exc = exc, !.msg = msg]

\* the connections of the pool the client holds
PoolSizeOf(c) == IF c.async_pool.kind = "pool" THEN c.async_pool.v[1] ELSE 0

\* the call submits no query
NoTasks == /\ tasks' = << >>
           /\ pool' = PoolSizeOf(client)
           /\ client' = client

\* the attribute of the client from which the call reads its statements
StatementsAttribute(call) ==
    IF call.helper
    THEN (IF call.op = "single" THEN "helper_column_prepared_statements"
          ELSE "batch_helper_column_prepared_statements")
    ELSE (IF call.op = "single" THEN "prepared_statements"
          ELSE "batch_prepared_statements")

\* a key removal that works on the registered map of the client itself
PopFromRegistered(c, attr, entries) ==
    [c EXCEPT ![attr] = IF @.kind = "dict"
                        THEN DictV(SelectSeq(@.v, LAMBDA p : DictHas(entries, p.k)))
                        ELSE @]

\* the client after the key removal of _execute_prep_statements: the dict the
\* keys are popped from is the one the serving call filled for this call
\* (prepared_statement_execution, prepared_stmts_to_execute), of which the
\* client holds no reference
PopMissingKeys(c, attr, entries) == c

\* _single_vector_result(entry, prepared_statement_objects), up to the
\* submission of the queries
_single_vector_result(call, objects) ==
    LET entry == call.entry IN
    IF AllValuesAreLists(entry)
    THEN /\ last' = Raised(call, "ValueError", "single value per primary key expected")
         /\ NoTasks
    ELSE IF client.valid_serving_key.kind # "set"
    THEN /\ last' = Raised(call, "TypeError", "")
         /\ NoTasks
    ELSE IF InvalidKeys(client, entry) # {}
    THEN \* the first invalid key in the caller's key order
         /\ \E key \in InvalidKeys(client, entry) :
                last' = [Raised(call, "ValueError", "not a correct serving key")
                            EXCEPT !.err_key = key,
                                   !.err_valid = client.valid_serving_key.v]
         /\ NoTasks
    ELSE IF objects.kind \notin {"dict", "list"}
    THEN /\ last' = Raised(call, "TypeError", "")
         /\ NoTasks
    ELSE IF objects.kind = "list" /\ objects.v # << >>
    THEN \* a statement object is no key of serving_key_by_serving_index
         /\ last' = Raised(call, "KeyError", "")
         /\ NoTasks
    ELSE LET r == ResolveSingle(client, DictKeys(objects.v), objects.v, entry,
                                [exc |-> "", exec |-> << >>, binds |-> << >>])
         IN  IF r.exc # ""
             THEN /\ last' = Raised(call, r.exc, "")
                  /\ NoTasks
             ELSE /\ last' = [call EXCEPT !.phase = "running"]
                  /\ tasks' = SubmitTasks(r.exec, r.binds)
                  /\ pool' = PoolSizeOf(client)
                  /\ client' = PopMissingKeys(client, StatementsAttribute(call),
                                              r.binds)

\* get_single_feature_vector(entry)
get_single_feature_vector(entry) ==
    /\ CanCall
    /\ _single_vector_result(
           [Idle EXCEPT !.op = "single", !.entry = entry],
           client.prepared_statements)
    /\ UNCHANGED <<rest, hist>>

\* get_inference_helper_vector(entry)
get_inference_helper_vector(entry) ==
    /\ CanCall
    /\ _single_vector_result(
           [Idle EXCEPT !.op = "single", !.helper = TRUE, !.entry = entry],
           client.helper_column_prepared_statements)
    /\ UNCHANGED <<rest, hist>>

\* _batch_vector_results(entries, prepared_statement_objects), up to the
\* submission of the queries
_batch_vector_results(call, objects) ==
    IF objects.kind = "unset"
    THEN \* the attribute read by the caller does not exist
         /\ last' = Raised(call, "AttributeError", "")
         /\ NoTasks
    ELSE IF objects.kind \notin {"dict", "list"}
    THEN /\ last' = Raised(call, "TypeError", "")
         /\ NoTasks
    ELSE LET r == IF objects.kind = "list"
                  \* no statement object is a key of serving_key_by_serving_index
                  THEN [exec |-> << >>, binds |-> << >>]
                  ELSE ResolveBatch(client, DictKeys(objects.v), objects.v,
                                    call.entries, [exec |-> << >>, binds |-> << >>])
         IN  /\ last' = [call EXCEPT !.phase = "running"]
             /\ tasks' = SubmitTasks(r.exec, r.binds)
             /\ pool' = PoolSizeOf(client)
             /\ client' = PopMissingKeys(client, StatementsAttribute(call),
                                         r.binds)

\* get_batch_feature_vector(entries)
get_batch_feature_vector(entries) ==
    /\ CanCall
    /\ _batch_vector_results(
           [Idle EXCEPT !.op = "batch", !.entries = entries],
           client.batch_prepared_statements)
    /\ UNCHANGED <<rest, hist>>

\* get_batch_inference_helper_vector(entries)
get_batch_inference_helper_vector(entries) ==
    /\ CanCall
    /\ _batch_vector_results(
           [Idle EXCEPT !.op = "batch", !.helper = TRUE, !.entries = entries],
           client.batch_helper_column_prepared_statements)
    /\ UNCHANGED <<rest, hist>>

---------------------------------------------------------------------------
(* The query tasks: _query_async_sql, one step per suspension point *)

\* a task fails: gather hands the first failure to the waiting call
FailTask(i, exc) ==
    /\ tasks' = [tasks EXCEPT ![i].st = "failed", ![i].exc = exc]
    /\ last' = IF last.phase = "running" /\ last.first_exc = ""
               THEN [last EXCEPT !.first_exc = exc] ELSE last

\* async with self._async_pool.acquire() as conn: conn.execute(stmt, bind_params)
Acquire(i) ==
    /\ i \in 1..Len(tasks)
    /\ tasks[i].st = "pending"
    /\ IF client.async_pool.kind # "pool"
       THEN \* None has no acquire()
            /\ FailTask(i, "AttributeError")
            /\ UNCHANGED pool
       ELSE /\ pool > 0
            /\ pool' = pool - 1
            /\ tasks' = [tasks EXCEPT ![i].st = "acquired"]
            /\ last' = [last EXCEPT !.dispatched = @ \cup {tasks[i].k}]
    /\ UNCHANGED <<client, rest, hist>>

\* cursor.fetchall() returns the rows, in an order the store chooses; the
\* connection goes back to the pool
Complete(i) ==
    /\ i \in 1..Len(tasks)
    /\ tasks[i].st = "acquired"
    /\ WellFormed(tasks[i].stmt)
    /\ BindsGiven(tasks[i].stmt, tasks[i].bind_params)
    /\ \E rows \in Orderings(QueryRows(tasks[i].stmt, tasks[i].bind_params)) :
           tasks' = [tasks EXCEPT ![i].st = "done", ![i].rows = rows]
    /\ pool' = pool + 1
    \* the order in which the queries complete, for the record
    /\ last' = [last EXCEPT !.completed = Append(@, tasks[i].k)]
    /\ UNCHANGED <<client, rest, hist>>

\* the store raises (a statement it cannot run, a broken connection); leaving
\* the `async with` block returns the connection to the pool
FailQuery(i) ==
    /\ i \in 1..Len(tasks)
    /\ tasks[i].st = "acquired"
    /\ FailTask(i, "StoreError")
    /\ pool' = pool + 1
    /\ UNCHANGED <<client, rest, hist>>

\* the store never answers: the task stays suspended in conn.execute or
\* fetchall, holding its connection; nothing times it out or cancels it
Hang(i) ==
    /\ i \in 1..Len(tasks)
    /\ tasks[i].st = "acquired"
    /\ last.phase = "running"
    /\ tasks' = [tasks EXCEPT ![i].st = "hung"]
    /\ UNCHANGED <<client, last, pool, rest, hist>>

\* a batch call that returns the serving keys of every join position of the
\* registry
AfterGatherAllKeys(call, ts) ==
    IF call.op = "single"
    THEN [call EXCEPT !.phase = "done",
                      !.ret = AssembleSingle(ResultsDict(ts), EmptyDict)]
    ELSE LET results == ResultsDict(ts)
             s == Stitch(client, DictKeys(results), call.entries, results,
                         [exc |-> "",
                          batch_results |-> [i \in 1..Len(call.entries) |-> EmptyDict],
                          serving_keys_all_fg |-> << >>])
             by_index == client.serving_key_by_serving_index.v
         IN  IF s.exc # "" THEN Raised(call, s.exc, "")
             ELSE [call EXCEPT !.phase = "done",
                               !.ret_list = s.batch_results,
                               !.ret_keys = IF by_index = << >> THEN << >>
                                            ELSE by_index[1].v
                                                 \o (IF Len(by_index) > 1
                                                     THEN by_index[2].v ELSE << >>)]

\* what the serving call does with the results gather returned
AfterGather(call, ts) ==
    IF call.op = "single"
    THEN [call EXCEPT !.phase = "done",
                      !.ret = AssembleSingle(ResultsDict(ts), EmptyDict)]
    ELSE LET results == ResultsDict(ts)
             s == Stitch(client, DictKeys(results), call.entries, results,
                         [exc |-> "",
                          batch_results |-> [i \in 1..Len(call.entries) |-> EmptyDict],
                          serving_keys_all_fg |-> << >>])
         IN  IF s.exc # "" THEN Raised(call, s.exc, "")
             ELSE [call EXCEPT !.phase = "done",
                               !.ret_list = s.batch_results,
                               !.ret_keys = s.serving_keys_all_fg]

\* results = await asyncio.gather(*tasks), every task having returned: the
\* serving call assembles its result and returns
ReturnResults ==
    /\ last.phase = "running"
    /\ \A i \in 1..Len(tasks) : tasks[i].st = "done"
    /\ last' = AfterGather(last, tasks)
    /\ UNCHANGED <<client, tasks, pool, rest, hist>>

\* a gather whose failure is caught: the call returns what it has
RaiseErrorSwallowed ==
    /\ last.phase = "running"
    /\ last.first_exc # ""
    /\ last' = [last EXCEPT !.phase = "done", !.open = InFlight(tasks)]
    /\ UNCHANGED <<client, tasks, pool, rest, hist>>

\* await asyncio.gather(*tasks), a task having raised: gather raises that
\* exception at once, and the serving call with it; the other tasks are neither
\* awaited nor cancelled
RaiseError ==
    /\ last.phase = "running"
    /\ last.first_exc # ""
    /\ last' = [Raised(last, last.first_exc, "") EXCEPT !.open = InFlight(tasks)]
    /\ UNCHANGED <<client, tasks, pool, rest, hist>>

\* the caller has the result or the exception of its call and may call again;
\* the tasks a failed call left behind finish when the event loop next runs,
\* which the model lets happen before the next call's tasks are created
NextCall ==
    /\ last.phase = "done"
    /\ InFlight(tasks) = {}
    /\ last' = Idle
    /\ tasks' = << >>
    /\ UNCHANGED <<client, pool, rest, hist>>

---------------------------------------------------------------------------
(* The synchronous engine: refresh_mysql_connection *)

\* engines created for one client
MaxEngines == 4

\* the n-th engine created for the client; closed: connecting through it
\* raises OperationalError
EngineV(n, closed) == [kind |-> "engine", v |-> <<n, closed>>]

\* the engine the client holds reports a closed connection
EngineClosed(c) ==
    c.prepared_statement_engine.kind = "engine" /\ c.prepared_statement_engine.v[2]

\* the number of the next engine util.create_mysql_engine returns
FreshEngineNumber(c) ==
    IF c.prepared_statement_engine.kind = "engine"
    THEN c.prepared_statement_engine.v[1] + 1
    ELSE 1

\* _set_mysql_connection(): a new engine, created from the online connector
_set_mysql_connection(c) ==
    [c EXCEPT !.prepared_statement_engine = EngineV(FreshEngineNumber(c), FALSE)]

\* refresh_mysql_connection(): connect through the engine; on OperationalError
\* create a new one
refresh_mysql_connection(c) ==
    IF c.prepared_statement_engine.kind # "engine"
    \* None has no connect(): not an OperationalError, so not caught
    THEN Raise(c, "AttributeError")
    ELSE IF EngineClosed(c) THEN Ok(_set_mysql_connection(c))
    ELSE Ok(c)

\* the owner calls _set_mysql_connection()
SetMysqlConnection ==
    /\ CanCall
    /\ FreshEngineNumber(client) <= MaxEngines
    /\ client' = _set_mysql_connection(client)
    /\ UNCHANGED <<last, tasks, pool, rest, hist>>

\* the store closes the connections of the engine the client holds
ConnectionClosed ==
    /\ CanCall
    /\ client.prepared_statement_engine.kind = "engine"
    /\ ~EngineClosed(client)
    /\ client' = [client EXCEPT !.prepared_statement_engine =
                     EngineV(@.v[1], TRUE)]
    /\ UNCHANGED <<last, tasks, pool, rest, hist>>

\* refresh_mysql_connection()
RefreshMysqlConnection ==
    /\ CanCall
    /\ EngineClosed(client) => FreshEngineNumber(client) <= MaxEngines
    /\ LET r == refresh_mysql_connection(client) IN
        /\ client' = r.c
        /\ last' = [Idle EXCEPT !.op = "refresh", !.phase = "done", !.exc = r.exc,
                                !.engine_before = client.prepared_statement_engine]
    /\ UNCHANGED <<tasks, pool, rest, hist>>

---------------------------------------------------------------------------
(* The owner of the client: the calls that build the registry *)

\* nothing initialized yet
NoHist == [inits |-> << >>, steps |-> 0]

\* one more registry operation may be made
Step == hist.steps < MaxSteps

\* a registry operation other than init_prepared_statement: it ends a run of
\* init_prepared_statement calls made in a row
OtherStep ==
    /\ Step
    /\ hist' = [inits |-> << >>, steps |-> hist.steps + 1]

\* the registry operations leave the serving state alone
RegistryFrame == UNCHANGED <<last, tasks, pool, rest>>

\* _skip_fg_ids and _serving_keys are read by the class and assigned by no
\* method of it: the owner sets them (serving keys of None: to be derived)
SupplyAttributes(entity, skip, given) ==
    /\ client' = [client EXCEPT
                    !.skip_fg_ids = SetV(skip),
                    !.serving_keys = IF given THEN ListV(ApiServingKeys(entity))
                                     ELSE NoneV]
    /\ OtherStep
    /\ RegistryFrame

\* fetch_prepared_statements(entity, inference_helper_columns)
FetchPreparedStatements(entity, inference_helper_columns) ==
    /\ client' = fetch_prepared_statements(client, entity, inference_helper_columns).c
    /\ OtherStep
    /\ RegistryFrame

\* init_prepared_statement(entity, external, inference_helper_columns, options)
InitPreparedStatement(entity, external, inference_helper_columns, options) ==
    /\ Step
    /\ Len(hist.inits) < MaxInits
    /\ LET r == init_prepared_statement(client, entity, external,
                                        inference_helper_columns, options)
       IN  /\ client' = r.c
           /\ hist' = [hist EXCEPT !.steps = @ + 1, !.inits =
                         Append(@, [entity |-> entity, external |-> external,
                                    inference_helper_columns |-> inference_helper_columns,
                                    options |-> options,
                                    exc |-> r.exc, before |-> client, after |-> r.c])]
    /\ RegistryFrame

\* init_parametrize_and_serving_utils()
InitParametrizeAndServingUtils ==
    /\ client' = init_parametrize_and_serving_utils(client).c
    /\ OtherStep
    /\ RegistryFrame

\* loop.run_until_complete(_set_aiomysql_connection(len(statements), options))
SetAiomysqlConnection ==
    /\ client.prepared_statements.kind \in {"list", "dict"}
    /\ client' = _set_aiomysql_connection(client, Len(client.prepared_statements.v), 0)
    /\ OtherStep
    /\ RegistryFrame

\* the statement attributes, by name
StatementAttributes ==
    {"prepared_statements", "batch_prepared_statements",
     "helper_column_prepared_statements", "batch_helper_column_prepared_statements"}

IsBatchAttribute(a) ==
    a \in {"batch_prepared_statements", "batch_helper_column_prepared_statements"}

\* the property setters of the four statement attributes, given the dict
\* _parametrize_prepared_statements builds from the fetched list
SetStatements(a) ==
    /\ a \in StatementAttributes
    /\ client[a].kind = "list"
    /\ LET r == _parametrize_prepared_statements(client, client[a], IsBatchAttribute(a))
       IN  /\ r.exc = ""
           /\ client' = [client EXCEPT ![a] = DictV(r.val)]
    /\ OtherStep
    /\ RegistryFrame

\* the getter of the property batch_helper_column_prepared_statements: it
\* returns the attribute _helper_column_prepared_statements
batch_helper_column_prepared_statements(c) == c.helper_column_prepared_statements

\* {statement.prepared_statement_index: statement.prefix} over a statement list
RECURSIVE PrefixMap(_, _)
PrefixMap(stmts, acc) ==
    IF stmts = << >> THEN acc
    ELSE PrefixMap(Tail(stmts),
                   DictPut(acc, Head(stmts).prepared_statement_index, Head(stmts).prefix))

\* the prefix_by_serving_index setter, given the prefixes of an entity's statements
SetPrefixByServingIndex(entity) ==
    /\ client' = [client EXCEPT !.prefix_by_serving_index =
                     DictV(PrefixMap(ApiStatements(entity, FALSE, FALSE), << >>))]
    /\ OtherStep
    /\ RegistryFrame

---------------------------------------------------------------------------
(* Clients ready to serve *)

\* the statement attribute a, parametrized through its setter when it holds a
\* fetched list
WithStatements(c, a) ==
    IF c[a].kind = "list"
    THEN [c EXCEPT ![a] =
             DictV(_parametrize_prepared_statements(c, c[a], IsBatchAttribute(a)).val)]
    ELSE c

\* the client after the owner supplied the attributes, fetched the statements,
\* built the serving utils from the fetched lists, opened the pool and
\* parametrized the statements; with prefixes, after it also set the prefix map
Setup(entity, skip, inference_helper_columns, prefixes) ==
    LET c0 == [NewClient EXCEPT !.skip_fg_ids = SetV(skip),
                                !.serving_keys = ListV(ApiServingKeys(entity))]
        c1 == fetch_prepared_statements(c0, entity, inference_helper_columns).c
        c2 == init_parametrize_and_serving_utils(c1).c
        c3 == _set_aiomysql_connection(c2, Len(c2.prepared_statements.v), 0)
        c4 == WithStatements(WithStatements(WithStatements(WithStatements(c3,
                  "prepared_statements"), "batch_prepared_statements"),
                  "helper_column_prepared_statements"),
                  "batch_helper_column_prepared_statements")
    IN  IF prefixes
        THEN [c4 EXCEPT !.prefix_by_serving_index =
                 DictV(PrefixMap(ApiStatements(entity, FALSE, FALSE), << >>))]
        ELSE c4

\* the client after init_prepared_statement was called on a new client to which
\* the owner supplied the attributes
AfterInit(entity, inference_helper_columns) ==
    init_prepared_statement(
        [NewClient EXCEPT !.skip_fg_ids = SetV({}),
                          !.serving_keys = ListV(ApiServingKeys(entity))],
        entity, TRUE, inference_helper_columns, 0).c

\* the clients on which serving calls are made
ServingClients ==
    {NewClient,
     AfterInit("fvA", TRUE),
     Setup("fvA", {}, TRUE, FALSE),
     Setup("fvA", {}, TRUE, TRUE),
     Setup("fvA", {11}, FALSE, TRUE),
     Setup("fvB", {}, FALSE, FALSE),
     Setup("fvC", {}, FALSE, TRUE),
     Setup("td", {}, FALSE, FALSE)}

---------------------------------------------------------------------------
(* Statements to compile *)

\* the names of primary-key parameters
CompileNames == <<"a", "b", "c", "d">>

\* the orders in which the backend may list k parameters
ListingOrders(k) ==
    {p \in [1..k -> 1..k] : \A i, j \in 1..k : p[i] = p[j] => i = j}

\* the text before and after the WHERE clause of a query
Leads == {<< >>, <<Nl>>, <<Col("FROM"), Nl, Sp>>}

Trails == {<< >>, <<Nl, Col("LIMIT")>>}

\* a statement with k parameters, listed in the order perm; the parameter
\* named CompileNames[i] has the index stride * i and stands for the i-th '?'
CompileStatement(k, perm, stride, lead, trail, batch) ==
    LET names == SubSeq(CompileNames, 1, k)
        st == Statement(10, 0, "",
                        [j \in 1..k |-> Psp(names[perm[j]], stride * perm[j])],
                        names, "f", batch)
    IN  [st EXCEPT !.query_online.where =
            lead \o (IF batch THEN WhereBatch(names) ELSE WhereSingle(names)) \o trail]

\* what distinguishes the statements to compile
CompileInputs ==
    UNION {{[k |-> k, perm |-> p, stride |-> s, lead |-> l, trail |-> t] :
               p \in ListingOrders(k), s \in {1, 3}, l \in Leads, t \in Trails} :
           k \in 1..MaxParams}

\* a client that fetched such a statement for join position 0, with the
\* statement of another feature group at join position 1
CompileClient(x, skip) ==
    LET Fetched(batch) ==
            <<CompileStatement(x.k, x.perm, x.stride, x.lead, x.trail, batch),
              Statement(11, 1, "r_", <<Psp("id", 0)>>, <<"id">>, "f", batch)>>
    IN  [NewClient EXCEPT !.skip_fg_ids = SetV(skip),
                          !.prepared_statements = ListV(Fetched(FALSE)),
                          !.batch_prepared_statements = ListV(Fetched(TRUE))]

---------------------------------------------------------------------------
(* Direct calls of _execute_prep_statements *)

\* the client on which _execute_prep_statements is called directly
ExecuteClients == {Setup("fvA", {}, FALSE, TRUE)}

\* the client of a feature view with a label-only feature group, initialized
LabelClients == {Setup("fvL", {}, FALSE, TRUE)}

\* clients with two join positions whose pool has the size the options ask
\* for: smaller than, or equal to, the number of queries of one call
PoolClients ==
    {_set_aiomysql_connection(Setup("fvA", {}, FALSE, TRUE), 2, n) : n \in 1..MaxPoolSize}

\* join positions of the bound-values map; no statement has join position 2
ExecutePositions == {0, 1, 2}

\* the orders in which a bound-values map may hold some of the positions
PositionOrders ==
    {o \in UNION {[1..n -> ExecutePositions] : n \in 0..Cardinality(ExecutePositions)} :
        \A i, j \in 1..Len(o) : o[i] = o[j] => i = j}

\* the bind parameters of one join position: a key value for a single-entry
\* statement, {"batch_ids": [(v,)]} for a batch statement
BindOf(v, batch) == IF batch THEN [batch_ids |-> << <<v>> >>] ELSE [id |-> v]

\* the bound-values maps
ExecuteBinds(batch) ==
    UNION {{[i \in 1..Len(o) |-> [k |-> o[i], v |-> BindOf(vals[i], batch)]] :
               vals \in [1..Len(o) -> {"1", "2"}]} : o \in PositionOrders}

\* the maps that hold some of the statements of d, in the order of d
SubMaps(d) ==
    {SelectSeq(d, LAMBDA e : e.k \in K) : K \in SUBSET SeqToSet(DictKeys(d))}

\* _execute_prep_statements(prepared_statements, entries), up to the creation
\* of the tasks
ExecutePrepStatements(prepared_statements, entries) ==
    /\ CanCall
    /\ last' = [Idle EXCEPT !.op = "execute", !.phase = "running",
                            !.stmts_in = prepared_statements, !.binds_in = entries]
    /\ tasks' = SubmitTasks(prepared_statements, entries)
    /\ pool' = PoolSizeOf(client)
    /\ UNCHANGED <<client, rest, hist>>

\* results = await asyncio.gather(*tasks), every task having returned:
\* _execute_prep_statements builds results_dict and returns it
ExecuteReturn ==
    /\ last.op = "execute"
    /\ last.phase = "running"
    /\ \A i \in 1..Len(tasks) : tasks[i].st = "done"
    /\ last' = [last EXCEPT !.phase = "done", !.ret_dict = ResultsDict(tasks)]
    /\ UNCHANGED <<client, tasks, pool, rest, hist>>

---------------------------------------------------------------------------
(* Re-initialization by one thread while another thread makes serving calls *)

\* the client before the re-initialization: its registry was built for "fvA"
ReinitClients == {Setup("fvA", {}, FALSE, TRUE)}

\* the entities init_prepared_statement is called again with
ReinitEntities == {"fvC", "td", "other"}

\* the entries of the serving calls made meanwhile
ReinitEntries == {[id |-> "1"], [r_id |-> "1"], [id |-> "1", r_id |-> "1"]}

\* no call of init_prepared_statement made; pc is the source line of the
\* statement the initializing thread executes next (0: not called, 157: returned)
NoReinit(c) ==
    [inits |-> << >>, steps |-> 0, pc |-> 0, entity |-> "", external |-> TRUE,
     inference_helper_columns |-> FALSE, before |-> c, exc |-> ""]

\* the statement executed: the client it leaves, the line that follows
Goto(c, line) == [c |-> c, exc |-> "", pc |-> line]

\* the statement raised: init_prepared_statement ends
Stop(c, exc) == [c |-> c, exc |-> exc, pc |-> 157]

\* the outcome of a method called by a statement
GotoUnless(r, line) == IF r.exc # "" THEN Stop(r.c, r.exc) ELSE Goto(r.c, line)

\* the assignment of a statement map, or the exception its computation raised
AssignUnless(c, a, r, line) ==
    IF r.exc # "" THEN Stop(c, r.exc) ELSE Goto([c EXCEPT ![a] = DictV(r.val)], line)

\* line 142: `a, _ = d` unpacks the keys of the dict, exactly two are needed
UnpackUnless(c, r, line) ==
    IF r.exc # "" THEN Stop(c, r.exc)
    ELSE IF Len(r.val) # 2 THEN Stop(c, "ValueError")
    ELSE Goto([c EXCEPT !.batch_prepared_statements = IntV(r.val[1].k)], line)

\* one statement of init_prepared_statement or of the fetch_prepared_statements
\* it calls, by source line; init_parametrize_and_serving_utils is one statement
ReinitStatement(c, line, entity, external, inference_helper_columns) ==
    CASE line = 56 ->
            IF IsFeatureView(entity)
            THEN Goto(c, IF inference_helper_columns THEN 64 ELSE 81)
            ELSE IF IsTrainingDataset(entity) THEN Goto(c, 101)
            ELSE Stop(c, "ValueError")
      [] line = 64 ->
            Goto([c EXCEPT !.helper_column_prepared_statements =
                               ListV(ApiStatements(entity, FALSE, TRUE))], 72)
      [] line = 72 ->
            Goto([c EXCEPT !.batch_helper_column_prepared_statements =
                               ListV(ApiStatements(entity, TRUE, TRUE))], 81)
      [] line \in {81, 101} ->
            Goto([c EXCEPT !.prepared_statements =
                               ListV(ApiStatements(entity, FALSE, FALSE))],
                 IF line = 81 THEN 89 ELSE 106)
      [] line \in {89, 106} ->
            Goto([c EXCEPT !.batch_prepared_statements =
                               ListV(ApiStatements(entity, TRUE, FALSE))], 127)
      [] line = 127 -> Goto([c EXCEPT !.external = external], 131)
      [] line = 131 ->
            Goto(_set_aiomysql_connection(c, Len(c.prepared_statements.v), 0), 137)
      [] line = 137 ->
            AssignUnless(c, "prepared_statements",
                _parametrize_prepared_statements(c, c.prepared_statements, FALSE), 141)
      [] line = 141 -> GotoUnless(init_parametrize_and_serving_utils(c), 142)
      [] line = 142 ->
            UnpackUnless(c,
                _parametrize_prepared_statements(c, c.batch_prepared_statements, TRUE),
                IF inference_helper_columns THEN 147 ELSE 157)
      [] line = 147 ->
            AssignUnless(c, "helper_column_prepared_statements",
                _parametrize_prepared_statements(
                    c, c.helper_column_prepared_statements, FALSE), 152)
      [] line = 152 ->
            AssignUnless(c, "batch_helper_column_prepared_statements",
                _parametrize_prepared_statements(
                    c, c.batch_helper_column_prepared_statements, TRUE), 157)

\* a thread calls init_prepared_statement(entity, external, inference_helper_columns)
ReinitCall(entity, external, inference_helper_columns) ==
    /\ hist.pc = 0
    /\ hist' = [hist EXCEPT !.pc = 56, !.entity = entity, !.external = external,
                            !.inference_helper_columns = inference_helper_columns,
                            !.before = client]
    /\ UNCHANGED <<client, last, tasks, pool, rest>>

\* that thread executes its next statement; nothing makes it wait for the
\* serving call another thread has in progress
ReinitStep ==
    /\ hist.pc \notin {0, 157}
    /\ client' = ReinitStatement(client, hist.pc, hist.entity, hist.external,
                                  hist.inference_helper_columns).c
    /\ hist' = [hist EXCEPT
                   !.pc = ReinitStatement(client, hist.pc, hist.entity, hist.external,
                                          hist.inference_helper_columns).pc,
                   !.exc = ReinitStatement(client, hist.pc, hist.entity, hist.external,
                                           hist.inference_helper_columns).exc]
    /\ UNCHANGED <<last, tasks, pool, rest>>

---------------------------------------------------------------------------
(* OnlineStoreRestClientEngine *)

\* entries in one REST batch call, and rows in one REST batch response
MaxRestBatch == 2

\* Python values the REST server returns or the caller passes, with their type
RNone == [ty |-> "NoneType", v |-> << >>]
RInt(n) == [ty |-> "int", v |-> <<n>>]
RFloat == [ty |-> "float", v |-> <<0>>]
\* an int of milliseconds since the epoch (the model's integers are 32 bits wide: the
\* value is held as its quotient and remainder by 1000)
RMillis(secs, ms) == [ty |-> "int", v |-> <<secs, ms>>]
\* a str in the pattern %Y-%m-%d %H:%M:%S, by its fields
RStr(y, mo, d, h, mi, sec) == [ty |-> "str", v |-> <<y, mo, d, h, mi, sec>>]
\* a str that does not follow the pattern
RBadStr == [ty |-> "str", v |-> << >>]
\* a value that is neither None, an int, a float nor a str
RObject == [ty |-> "dict", v |-> << >>]
\* a timezone-naive datetime
RDatetime(y, mo, d, h, mi, sec, us) ==
    [ty |-> "datetime", v |-> <<y, mo, d, h, mi, sec, us>>]

\* TrainingDatasetFeature
RestFeature(name, type, label, ihc, thc, index) ==
    [name |-> name, type |-> type, label |-> label,
     inference_helper_column |-> ihc, training_helper_column |-> thc,
     index |-> index]

\* the feature lists an engine is built with
RestFeatureLists ==
    {<<RestFeature("id", "bigint", FALSE, FALSE, FALSE, 0),
       RestFeature("ts", "timestamp", FALSE, FALSE, FALSE, 1),
       RestFeature("h", "string", FALSE, TRUE, FALSE, 2),
       RestFeature("f", "double", FALSE, FALSE, FALSE, 3),
       RestFeature("y", "int", TRUE, FALSE, FALSE, 4)>>,
     <<RestFeature("id", "bigint", FALSE, FALSE, FALSE, 0),
       RestFeature("w", "int", FALSE, FALSE, TRUE, 1)>>}

RestSkipChoices == {{}, {3}}

\* a filter that keeps the labels
OrderedWithLabels(features, skip_fg_ids) ==
    LET kept == SelectSeq(features,
                    LAMBDA feat : ~(\/ feat.inference_helper_column
                                    \/ feat.training_helper_column
                                    \/ feat.index \in skip_fg_ids))
    IN  [i \in 1..Len(kept) |-> [name |-> kept[i].name, dtype |-> kept[i].type]]

\* __init__: _ordered_feature_names_and_dtypes
OrderedFeatureNamesAndDtypes(features, skip_fg_ids) ==
    LET kept == SelectSeq(features,
                    LAMBDA feat : ~(\/ feat.label
                                    \/ feat.inference_helper_column
                                    \/ feat.training_helper_column
                                    \/ feat.index \in skip_fg_ids))
    IN  [i \in 1..Len(kept) |-> [name |-> kept[i].name, dtype |-> kept[i].type]]

\* __init__(features, skip_fg_ids)
NewRestEngine(features, skip_fg_ids) ==
    [features |-> features, skip_fg_ids |-> skip_fg_ids,
     ordered_feature_names_and_dtypes |->
         OrderedFeatureNamesAndDtypes(features, skip_fg_ids)]

\* days since 1970-01-01 to the (year, month, day) of the proleptic Gregorian
\* calendar, as datetime.fromtimestamp computes it in UTC
CivilFromDays(days) ==
    LET z == days + 719468
        era == z \div 146097
        doe == z - era * 146097
        yoe == (doe - doe \div 1460 + doe \div 36524 - doe \div 146096) \div 365
        doy == doe - (365 * yoe + yoe \div 4 - yoe \div 100)
        mp == (5 * doy + 2) \div 153
        d == doy - (153 * mp + 2) \div 5 + 1
        m == IF mp < 10 THEN mp + 3 ELSE mp - 9
        y == yoe + era * 400 + (IF m <= 2 THEN 1 ELSE 0)
    IN  <<y, m, d>>

\* (year, month, day) to days since 1970-01-01
DaysFromCivil(y, m, d) ==
    LET yy == IF m <= 2 THEN y - 1 ELSE y
        era == yy \div 400
        yoe == yy - era * 400
        mp == IF m > 2 THEN m - 3 ELSE m + 9
        doy == (153 * mp + 2) \div 5 + d - 1
        doe == yoe * 365 + yoe \div 4 - yoe \div 100 + doy
    IN  era * 146097 + doe - 719468

IsLeap(y) == (y % 4 = 0 /\ y % 100 # 0) \/ y % 400 = 0

DaysInMonth(y, m) ==
    IF m = 2 THEN (IF IsLeap(y) THEN 29 ELSE 28)
    ELSE IF m \in {4, 6, 9, 11} THEN 30 ELSE 31

\* datetime.strptime accepts the text under SQL_TIMESTAMP_STRING_FORMAT
MatchesFormat(t) ==
    /\ Len(t) = 6
    /\ t[1] \in 1..9999 /\ t[2] \in 1..12 /\ t[3] \in 1..DaysInMonth(t[1], t[2])
    /\ t[4] \in 0..23 /\ t[5] \in 0..59 /\ t[6] \in 0..61

\* datetime.fromtimestamp(timestamp_value / 1000, tz=timezone.utc).replace(tzinfo=None)
FromTimestampUtc(secs, ms) ==
    LET ymd == CivilFromDays(secs \div 86400)
        rem == secs % 86400
    IN  RDatetime(ymd[1], ymd[2], ymd[3],
                  rem \div 3600, (rem % 3600) \div 60, rem % 60, ms * 1000)

\* the milliseconds an int value holds, as quotient and remainder by 1000
MillisParts(value) ==
    IF Len(value.v) = 2 THEN value.v
    ELSE <<value.v[1] \div 1000, value.v[1] % 1000>>

\* a conversion that hands back a value that is neither int nor str
HandleTimestampLenient(timestamp_value) ==
    IF timestamp_value.ty = "int"
    THEN [exc |-> "",
          val |-> FromTimestampUtc(MillisParts(timestamp_value)[1],
                                   MillisParts(timestamp_value)[2])]
    ELSE IF timestamp_value.ty = "str"
    THEN IF MatchesFormat(timestamp_value.v)
         THEN LET t == timestamp_value.v IN
              [exc |-> "", val |-> RDatetime(t[1], t[2], t[3], t[4], t[5], t[6], 0)]
         ELSE [exc |-> "ValueError", val |-> RNone]
    ELSE [exc |-> "", val |-> timestamp_value]

\* handle_timestamp_based_on_dtype(timestamp_value): [exc, val]
handle_timestamp_based_on_dtype(timestamp_value) ==
    IF timestamp_value.ty = "int"
    THEN [exc |-> "",
          val |-> FromTimestampUtc(MillisParts(timestamp_value)[1],
                                   MillisParts(timestamp_value)[2])]
    ELSE IF timestamp_value.ty = "str"
    THEN IF MatchesFormat(timestamp_value.v)
         THEN LET t == timestamp_value.v IN
              [exc |-> "", val |-> RDatetime(t[1], t[2], t[3], t[4], t[5], t[6], 0)]
         ELSE [exc |-> "ValueError", val |-> RNone]
    ELSE [exc |-> "ValueError", val |-> RNone]

\* a comprehension that decides by the type of the value: every int and str is
\* converted, whatever type its feature declares
RECURSIVE ConvertZipByValue(_, _, _, _)
ConvertZipByValue(row, ordered, i, acc) ==
    IF i > Len(row) \/ i > Len(ordered) THEN [exc |-> "", val |-> acc]
    ELSE IF row[i].ty \notin {"int", "str"}
    THEN ConvertZipByValue(row, ordered, i + 1, DictPut(acc, ordered[i].name, row[i]))
    ELSE LET r == handle_timestamp_based_on_dtype(row[i]) IN
         IF r.exc # "" THEN [exc |-> r.exc, val |-> << >>]
         ELSE ConvertZipByValue(row, ordered, i + 1,
                                DictPut(acc, ordered[i].name, r.val))

\* the dict comprehension of convert_rdrs_response_to_feature_value_dict over
\* zip(row_feature_values, _ordered_feature_names_and_dtypes), from pair i on
RECURSIVE ConvertZip(_, _, _, _)
ConvertZip(row, ordered, i, acc) ==
    IF i > Len(row) \/ i > Len(ordered) THEN [exc |-> "", val |-> acc]
    ELSE IF ordered[i].dtype # "timestamp" \/ row[i] = RNone
    THEN ConvertZip(row, ordered, i + 1, DictPut(acc, ordered[i].name, row[i]))
    ELSE LET r == handle_timestamp_based_on_dtype(row[i]) IN
         IF r.exc # "" THEN [exc |-> r.exc, val |-> << >>]
         ELSE ConvertZip(row, ordered, i + 1, DictPut(acc, ordered[i].name, r.val))

\* convert_rdrs_response_to_feature_value_dict(row_feature_values): [exc, val];
\* a row is NoneV or ListV of values
convert_rdrs_response_to_feature_value_dict(engine, row_feature_values) ==
    LET ordered == engine.ordered_feature_names_and_dtypes IN
    IF row_feature_values = NoneV
    THEN [exc |-> "",
          val |-> [i \in 1..Len(ordered) |-> [k |-> ordered[i].name, v |-> RNone]]]
    ELSE ConvertZip(row_feature_values.v, ordered, 1, << >>)

\* a conversion that skips the rows that are None
RECURSIVE ConvertBatchSkippingNone(_, _, _)
ConvertBatchSkippingNone(engine, rows, acc) ==
    IF rows = << >> THEN [exc |-> "", val |-> acc]
    ELSE IF Head(rows) = NoneV
    THEN ConvertBatchSkippingNone(engine, Tail(rows), acc)
    ELSE LET r == convert_rdrs_response_to_feature_value_dict(engine, Head(rows)) IN
         IF r.exc # "" THEN [exc |-> r.exc, val |-> << >>]
         ELSE ConvertBatchSkippingNone(engine, Tail(rows), Append(acc, r.val))

\* convert_batch_response_to_feature_value_dict(batch_response): [exc, val]
RECURSIVE convert_batch_response_to_feature_value_dict(_, _, _)
convert_batch_response_to_feature_value_dict(engine, rows, acc) ==
    IF rows = << >> THEN [exc |-> "", val |-> acc]
    ELSE LET r == convert_rdrs_response_to_feature_value_dict(engine, Head(rows)) IN
         IF r.exc # "" THEN [exc |-> r.exc, val |-> << >>]
         ELSE convert_batch_response_to_feature_value_dict(engine, Tail(rows),
                                                           Append(acc, r.val))

\* util.convert_event_time_to_timestamp(value) for a naive datetime: the
\* milliseconds since the epoch, reading the datetime as UTC
convert_event_time_to_timestamp(value) ==
    LET t == value.v
        secs == DaysFromCivil(t[1], t[2], t[3]) * 86400 + t[4] * 3600 + t[5] * 60 + t[6]
    IN  RMillis(secs, t[7] \div 1000)

\* handle_passed_features_dict(passed_features): the dict, datetimes replaced
handle_passed_features_dict(passed_features) ==
    IF passed_features = NoneV THEN << >>
    ELSE [i \in 1..Len(passed_features.v) |->
             [k |-> passed_features.v[i].k,
              v |-> IF passed_features.v[i].v.ty = "datetime"
                    THEN convert_event_time_to_timestamp(passed_features.v[i].v)
                    ELSE passed_features.v[i].v]]

\* the state of an engine on which no call is in progress
RestStart(engine) ==
    [engine |-> engine, op |-> "", phase |-> "idle",
     entries |-> << >>, passed_features |-> NoneV, return_type |-> "",
     payload |-> NoneV, sent |-> 0, exc |-> "", msg |-> "",
     response |-> NoneV, ret |-> NoneV]

\* the engine of a run that makes no REST call
RestIdle == RestStart(NewRestEngine(<< >>, {}))

RETURN_TYPE_FEATURE_VALUE_DICT == "feature_value_dict"

RETURN_TYPE_RESPONSE_JSON == "response_json"

ReturnTypes == {RETURN_TYPE_FEATURE_VALUE_DICT, RETURN_TYPE_RESPONSE_JSON}

\* the message of the ValueError of get_batch_raw_feature_vectors
LengthMismatch == "Length of passed features does not match the length of the entries."

\* the entries of a REST call: n primary-key dicts
RestEntries(n) == [i \in 1..n |-> <<[k |-> "id", v |-> RInt(i)]>>]

\* what a caller passes for one vector
PassedDicts ==
    {NoneV, DictV(<<[k |-> "ts", v |-> RDatetime(2024, 1, 15, 10, 30, 0, 0)]>>)}

\* what a caller passes to a batch call: None, a list, or something else
PassedLists ==
    {NoneV, DictV(<< >>)}
        \cup {ListV(l) : l \in UNION {[1..n -> PassedDicts] : n \in 0..(MaxRestBatch + 1)}}

\* the rows the server may answer with
RestRows ==
    {NoneV,
     ListV(<<RInt(1), RStr(2024, 1, 15, 10, 30, 0), RFloat>>),
     ListV(<<RInt(1), RMillis(1705314600, 0), RFloat>>),
     ListV(<<RInt(1), RMillis(951786061, 500), RFloat>>),
     ListV(<<RInt(2), RNone, RFloat>>),
     ListV(<<RInt(2), RObject, RFloat>>),
     ListV(<<RInt(1), RFloat>>),
     ListV(<<RInt(1), RBadStr, RFloat, RInt(7)>>)}

\* the "features" a batch response may hold
RestBatchFeatures == UNION {[1..n -> RestRows] : n \in 0..MaxRestBatch}

\* get_single_raw_feature_vector(entry, passed_features, return_type), up to
\* the request to the REST API
get_single_raw_feature_vector(passed_features, return_type) ==
    /\ rest.phase = "idle"
    /\ rest' = [RestStart(rest.engine) EXCEPT
                  !.op = "single", !.phase = "sent",
                  !.entries = RestEntries(1),
                  !.passed_features = passed_features,
                  !.return_type = return_type,
                  !.payload = DictV(<<[k |-> "entries", v |-> RestEntries(1)[1]],
                                      [k |-> "passedFeatures",
                                       v |-> handle_passed_features_dict(passed_features)]>>),
                  !.sent = 1]
    /\ UNCHANGED <<client, last, tasks, pool, hist>>

\* a length test that accepts every list
AnyLength(passed_features, n) == TRUE

\* len(passed_features) == len(entries) or len(passed_features) == 0
LengthMatches(passed_features, n) ==
    Len(passed_features.v) = n \/ Len(passed_features.v) = 0

\* get_batch_raw_feature_vectors(entries, passed_features, return_type), up to
\* the request to the REST API
get_batch_raw_feature_vectors(n, passed_features, return_type) ==
    /\ rest.phase = "idle"
    /\ LET call == [RestStart(rest.engine) EXCEPT
                      !.op = "batch", !.entries = RestEntries(n),
                      !.passed_features = passed_features,
                      !.return_type = return_type]
           Send(passed) ==
               [call EXCEPT !.phase = "sent", !.sent = 1,
                            !.payload = DictV(<<[k |-> "entries", v |-> RestEntries(n)],
                                                [k |-> "passedFeatures", v |-> passed]>>)]
       IN  IF /\ passed_features.kind = "list"
              /\ LengthMatches(passed_features, n)
           THEN rest' = Send([i \in 1..Len(passed_features.v) |->
                                 handle_passed_features_dict(passed_features.v[i])])
           ELSE IF passed_features = NoneV
           THEN rest' = Send(<< >>)
           ELSE rest' = [call EXCEPT !.phase = "done", !.exc = "ValueError",
                                     !.msg = LengthMismatch]
    /\ UNCHANGED <<client, last, tasks, pool, hist>>

\* the REST API answers with status 200: the call converts the response, or
\* returns it as it is
RestRespond(features) ==
    /\ rest.phase = "sent"
    /\ LET r == IF rest.op = "single"
                THEN convert_rdrs_response_to_feature_value_dict(rest.engine, features)
                ELSE convert_batch_response_to_feature_value_dict(rest.engine,
                                                                  features.v, << >>)
       IN  rest' = IF rest.return_type # RETURN_TYPE_FEATURE_VALUE_DICT
                   THEN [rest EXCEPT !.phase = "done", !.response = features,
                                     !.ret = features]
                   ELSE IF r.exc # ""
                   THEN [rest EXCEPT !.phase = "done", !.response = features,
                                     !.exc = r.exc]
                   ELSE [rest EXCEPT !.phase = "done", !.response = features,
                                     !.ret = IF rest.op = "single" THEN DictV(r.val)
                                             ELSE ListV(r.val)]
    /\ UNCHANGED <<client, last, tasks, pool, hist>>

\* the REST API raises RestAPIError: the status code is not 200
RestFail ==
    /\ rest.phase = "sent"
    /\ rest' = [rest EXCEPT !.phase = "done", !.exc = "RestAPIError"]
    /\ UNCHANGED <<client, last, tasks, pool, hist>>

\* the caller has the outcome of its call and may call again
RestNextCall ==
    /\ rest.phase = "done"
    /\ rest' = RestStart(rest.engine)
    /\ UNCHANGED <<client, last, tasks, pool, hist>>

---------------------------------------------------------------------------
(* Specifications *)

\* serving calls on a client whose registry was built
Init ==
    /\ client \in ServingClients
    /\ last = Idle
    /\ tasks = << >>
    /\ pool = PoolSizeOf(client)
    /\ rest = RestIdle
    /\ hist = NoHist

Next ==
    \/ \E entry \in SingleEntries : get_single_feature_vector(entry)
    \/ \E entry \in SingleEntries : get_inference_helper_vector(entry)
    \/ \E entries \in BatchEntries : get_batch_feature_vector(entries)
    \/ \E entries \in BatchEntries : get_batch_inference_helper_vector(entries)
    \/ \E i \in 1..Len(tasks) : Acquire(i)
    \/ \E i \in 1..Len(tasks) : Complete(i)
    \/ \E i \in 1..Len(tasks) : FailQuery(i)
    \/ ReturnResults
    \/ RaiseError
    \/ NextCall

Spec == Init /\ [][Next]_vars

\* the calls that build the registry, from a new client
InitRegistry ==
    /\ client = NewClient
    /\ last = Idle
    /\ tasks = << >>
    /\ pool = 0
    /\ rest = RestIdle
    /\ hist = NoHist

NextRegistry ==
    \/ \E entity \in Entities \ {"other"}, skip \in SkipChoices, given \in BOOLEAN :
           SupplyAttributes(entity, skip, given)
    \/ \E entity \in Entities, ihc \in BOOLEAN : FetchPreparedStatements(entity, ihc)
    \/ \E entity \in Entities, external \in BOOLEAN, ihc \in BOOLEAN :
           InitPreparedStatement(entity, external, ihc, 0)
    \/ InitParametrizeAndServingUtils
    \/ SetAiomysqlConnection
    \/ \E a \in StatementAttributes : SetStatements(a)
    \/ \E entity \in FeatureViews : SetPrefixByServingIndex(entity)

SpecRegistry == InitRegistry /\ [][NextRegistry]_vars

\* calls on a REST engine
InitRest ==
    /\ client = NewClient
    /\ last = Idle
    /\ tasks = << >>
    /\ pool = 0
    /\ \E features \in RestFeatureLists, skip_fg_ids \in RestSkipChoices :
           rest = RestStart(NewRestEngine(features, skip_fg_ids))
    /\ hist = NoHist

NextRest ==
    \/ \E passed_features \in PassedDicts, return_type \in ReturnTypes :
           get_single_raw_feature_vector(passed_features, return_type)
    \/ \E n \in 0..MaxRestBatch, passed_features \in PassedLists,
          return_type \in ReturnTypes :
           get_batch_raw_feature_vectors(n, passed_features, return_type)
    \/ \E row \in RestRows : rest.op = "single" /\ RestRespond(row)
    \/ \E features \in RestBatchFeatures : rest.op = "batch" /\ RestRespond(ListV(features))
    \/ RestFail
    \/ RestNextCall

SpecRest == InitRest /\ [][NextRest]_vars

\* the health check of the synchronous engine, on the clients of Init
NextRefresh ==
    \/ SetMysqlConnection
    \/ ConnectionClosed
    \/ RefreshMysqlConnection
    \/ NextCall

SpecRefresh == Init /\ [][NextRefresh]_vars

\* the compilation of fetched statements
InitCompile ==
    /\ \E x \in CompileInputs, skip \in SkipChoices : client = CompileClient(x, skip)
    /\ last = Idle
    /\ tasks = << >>
    /\ pool = 0
    /\ rest = RestIdle
    /\ hist = NoHist

NextCompile ==
    \E a \in {"prepared_statements", "batch_prepared_statements"} : SetStatements(a)

SpecCompile == InitCompile /\ [][NextCompile]_vars

\* direct calls of _execute_prep_statements, with statement maps and
\* bound-values maps whose join positions need not agree
InitExecute ==
    /\ client \in ExecuteClients
    /\ last = Idle
    /\ tasks = << >>
    /\ pool = PoolSizeOf(client)
    /\ rest = RestIdle
    /\ hist = NoHist

NextExecute ==
    \/ \E a \in {"prepared_statements", "batch_prepared_statements"} :
       \E prepared_statements \in SubMaps(client[a].v) :
       \E entries \in ExecuteBinds(IsBatchAttribute(a)) :
           ExecutePrepStatements(prepared_statements, entries)
    \/ \E i \in 1..Len(tasks) : Acquire(i)
    \/ \E i \in 1..Len(tasks) : Complete(i)
    \/ \E i \in 1..Len(tasks) : FailQuery(i)
    \/ ExecuteReturn
    \/ RaiseError
    \/ NextCall

SpecExecute == InitExecute /\ [][NextExecute]_vars

\* serving calls on a client one of whose join positions has no serving key
InitLabel ==
    /\ client \in LabelClients
    /\ last = Idle
    /\ tasks = << >>
    /\ pool = PoolSizeOf(client)
    /\ rest = RestIdle
    /\ hist = NoHist

NextLabel ==
    \/ \E entry \in SingleEntries : get_single_feature_vector(entry)
    \/ \E entries \in BatchEntries : get_batch_feature_vector(entries)
    \/ \E i \in 1..Len(tasks) : Acquire(i)
    \/ \E i \in 1..Len(tasks) : Complete(i)
    \/ \E i \in 1..Len(tasks) : FailQuery(i)
    \/ ReturnResults
    \/ RaiseError
    \/ NextCall

SpecLabel == InitLabel /\ [][NextLabel]_vars

\* serving calls of one thread while another thread re-initializes the client
InitReinit ==
    /\ client \in ReinitClients
    /\ last = Idle
    /\ tasks = << >>
    /\ pool = PoolSizeOf(client)
    /\ rest = RestIdle
    /\ hist = NoReinit(client)

NextReinit ==
    \/ \E entity \in ReinitEntities, inference_helper_columns \in BOOLEAN :
           ReinitCall(entity, TRUE, inference_helper_columns)
    \/ ReinitStep
    \/ \E entry \in ReinitEntries : get_single_feature_vector(entry)
    \/ \E entry \in ReinitEntries : get_batch_feature_vector(<<entry>>)
    \/ \E i \in 1..Len(tasks) : Acquire(i)
    \/ \E i \in 1..Len(tasks) : Complete(i)
    \/ \E i \in 1..Len(tasks) : FailQuery(i)
    \/ ReturnResults
    \/ RaiseError
    \/ NextCall

SpecReinit == InitReinit /\ [][NextReinit]_vars

\* serving calls during which the store may leave a query unanswered
InitHang ==
    /\ client \in ExecuteClients
    /\ last = Idle
    /\ tasks = << >>
    /\ pool = PoolSizeOf(client)
    /\ rest = RestIdle
    /\ hist = NoHist

NextHang ==
    \/ \E entry \in SingleEntries : get_single_feature_vector(entry)
    \/ \E entries \in BatchEntries : get_batch_feature_vector(entries)
    \/ \E i \in 1..Len(tasks) : Acquire(i)
    \/ \E i \in 1..Len(tasks) : Complete(i)
    \/ \E i \in 1..Len(tasks) : FailQuery(i)
    \/ \E i \in 1..Len(tasks) : Hang(i)
    \/ ReturnResults
    \/ RaiseError
    \/ NextCall

SpecHang == InitHang /\ [][NextHang]_vars

\* serving calls on clients whose pool may be smaller than the number of
\* queries of a call
InitPool ==
    /\ client \in PoolClients
    /\ last = Idle
    /\ tasks = << >>
    /\ pool = PoolSizeOf(client)
    /\ rest = RestIdle
    /\ hist = NoHist

NextPool ==
    \/ \E entry \in ReinitEntries : get_single_feature_vector(entry)
    \/ \E entry \in ReinitEntries : get_batch_feature_vector(<<entry>>)
    \/ \E i \in 1..Len(tasks) : Acquire(i)
    \/ \E i \in 1..Len(tasks) : Complete(i)
    \/ \E i \in 1..Len(tasks) : FailQuery(i)
    \/ ReturnResults
    \/ RaiseError
    \/ NextCall

\* the event loop runs the tasks only inside loop.run_until_complete, that is
\* while the serving call is in progress: there it resumes every task that can
\* go on, every query terminates, and the call ends as soon as gather lets it
FairPool ==
    /\ \A i \in 1..2 :
           /\ WF_vars(last.phase = "running" /\ Acquire(i))
           /\ WF_vars(last.phase = "running" /\ (Complete(i) \/ FailQuery(i)))
    /\ WF_vars(ReturnResults)
    /\ WF_vars(RaiseError)

SpecPool == InitPool /\ [][NextPool]_vars /\ FairPool


---------------------------------------------------------------------------
(* Properties of the serving calls (Spec) *)

\* the statements the call in progress reads
CallObjects ==
    IF last.helper
    THEN (IF last.op = "single" THEN client.helper_column_prepared_statements
          ELSE client.batch_helper_column_prepared_statements)
    ELSE (IF last.op = "single" THEN client.prepared_statements
          ELSE client.batch_prepared_statements)

\* a single-entry call was made and has not been forgotten
SingleCallMade == last.op = "single" /\ last.phase \in {"running", "done"}

\* the entry has a value that is no list
HasScalar(entry) == \E k \in DOMAIN entry : entry[k] \notin Lists

\* the keys of the entry outside the valid-serving-key set
UnknownKeys(entry) == {k \in DOMAIN entry : k \notin client.valid_serving_key.v}

\* the union of feature_name and required_serving_key over the serving keys
AcceptedKeys ==
    {client.serving_keys.v[i].feature_name : i \in 1..Len(client.serving_keys.v)}
        \cup {client.serving_keys.v[i].required_serving_key :
                 i \in 1..Len(client.serving_keys.v)}

\* the entry gives a value for the serving key
KeyPresent(sk, entry) ==
    sk.required_serving_key \in DOMAIN entry \/ sk.feature_name \in DOMAIN entry

\* the value the entry gives for the serving key: under required_serving_key
\* when that name is present, otherwise under feature_name
KeyValue(sk, entry) ==
    IF sk.required_serving_key \in DOMAIN entry THEN entry[sk.required_serving_key]
    ELSE IF sk.feature_name \in DOMAIN entry THEN entry[sk.feature_name]
    ELSE None

\* the registry the call reads is complete: a valid-key set, a statement map,
\* and a serving-key list for each of its join positions
Ready ==
    /\ client.valid_serving_key.kind = "set"
    /\ client.serving_keys.kind = "list"
    /\ CallObjects.kind = "dict"
    /\ \A i \in 1..Len(CallObjects.v) :
           DictHas(client.serving_key_by_serving_index.v, CallObjects.v[i].k)

\* the serving keys of join position p
KeysOf(p) == DictAt(client.serving_key_by_serving_index.v, p)

\* the message of the ValueError for an entry of lists
ShapeMessage == "single value per primary key expected"

\* C1: a batch call with n entries that returns normally returns n vectors, and
\* vector i holds values only of rows whose key tuple is the one entries[i]
\* gives: for every join position and serving key, a key column present in
\* vector i has the value of entries[i] for that key
C1_BatchSlotsMatchEntries ==
    (last.op = "batch" /\ last.phase = "done" /\ last.exc = "" /\ Ready
        /\ client.prefix_by_serving_index.kind = "dict")
    => /\ Len(last.ret_list) = Len(last.entries)
       /\ \A i \in 1..Len(last.entries) :
          \A t \in 1..Len(tasks) :
          \A j \in 1..Len(KeysOf(tasks[t].k)) :
             LET sk == KeysOf(tasks[t].k)[j]
                 col == DictAt(client.prefix_by_serving_index.v, tasks[t].k)
                            \o sk.feature_name
             IN  col \in DOMAIN last.ret_list[i]
                     => last.ret_list[i][col] = KeyValue(sk, last.entries[i])

\* C2 as stated: a single-entry call whose entry has a key outside the
\* valid-serving-key set fails with the ValueError that names such a key and
\* lists the accepted keys, and no query is submitted
C2_UnknownKeyNamed ==
    (SingleCallMade /\ client.valid_serving_key.kind = "set"
        /\ UnknownKeys(last.entry) # {})
    => /\ last.phase = "done"
       /\ last.exc = "ValueError"
       /\ last.err_key \in UnknownKeys(last.entry)
       /\ last.err_valid = client.valid_serving_key.v
       /\ tasks = << >> /\ last.dispatched = {}

\* C2, for entries with at least one value that is no list: a single-entry
\* call whose entry has a key outside the valid-serving-key set fails with the
\* ValueError that names such a key and lists the accepted keys (the union of
\* feature_name and required_serving_key over the serving keys), and no query
\* is submitted
C2_UnknownKeyRejected ==
    (SingleCallMade /\ client.valid_serving_key.kind = "set"
        /\ HasScalar(last.entry) /\ UnknownKeys(last.entry) # {})
    => /\ last.phase = "done"
       /\ last.exc = "ValueError"
       /\ last.err_key \in UnknownKeys(last.entry)
       /\ last.err_valid = client.valid_serving_key.v
       /\ client.serving_keys.kind = "list" => last.err_valid = AcceptedKeys
       /\ tasks = << >> /\ last.dispatched = {}

\* a call with the entry {"id": 1, "zz": 1} was rejected naming "zz"
C2_Witness ==
    /\ SingleCallMade /\ last.phase = "done"
    /\ DOMAIN last.entry = {"id", "zz"} /\ HasScalar(last.entry)
    /\ last.exc = "ValueError" /\ last.err_key = "zz"
    /\ last.err_valid = {"id", "r_id"}

\* C3: a serving call returns or raises only when every query task it
\* submitted has finished
C3_ReturnsAfterAllFinish ==
    last.phase = "done" => last.open = {}

\* C6: when a query task of a serving call raised, the call raises the error of
\* a failed task, returns no vector, and no join position was queried twice
C6_StoreErrorPropagates ==
    (last.phase = "done" /\ \E i \in 1..Len(tasks) : tasks[i].st = "failed")
    => /\ last.exc # ""
       /\ \E i \in 1..Len(tasks) : tasks[i].st = "failed" /\ tasks[i].exc = last.exc
       /\ last.ret = EmptyDict /\ last.ret_list = << >>
       /\ \A i, j \in 1..Len(tasks) : tasks[i].k = tasks[j].k => i = j

\* a call ended with the StoreError of one of its queries
C6_Witness ==
    /\ last.phase = "done" /\ last.exc = "StoreError"
    /\ \E i \in 1..Len(tasks) : tasks[i].st = "failed" /\ tasks[i].exc = "StoreError"
    /\ \E i \in 1..Len(tasks) : tasks[i].st = "done"

\* C7: in a single-entry call on a complete registry, with a valid entry, no
\* resolution error is raised, and a join position is queried exactly when the
\* entry gives every serving key of it under one of its two names
C7_MissingKeySkipsPosition ==
    (SingleCallMade /\ Ready /\ HasScalar(last.entry) /\ UnknownKeys(last.entry) = {})
    => /\ last.exc \notin {"ValueError", "KeyError", "TypeError"}
       /\ \A p \in SeqToSet(DictKeys(CallObjects.v)) :
              (\E i \in 1..Len(tasks) : tasks[i].k = p)
                  <=> (\A j \in 1..Len(KeysOf(p)) : KeyPresent(KeysOf(p)[j], last.entry))

\* the entry {"r_id": 1} left join position 0 out, and position 1 was queried
\* and answered
C7_Witness ==
    /\ SingleCallMade /\ last.phase = "done" /\ last.exc = ""
    /\ DOMAIN last.entry = {"r_id"}
    /\ SeqToSet(DictKeys(CallObjects.v)) = {0, 1}
    /\ {tasks[i].k : i \in 1..Len(tasks)} = {1}
    /\ "r_f" \in DOMAIN last.ret

\* C8: in a single-entry call, the bind parameters of every query are keyed by
\* feature_name and hold, for each serving key, the entry's value under
\* required_serving_key when that name is present and otherwise under
\* feature_name; the rows a query returned are the store's rows for these values
C8_BindsRequiredThenFeatureName ==
    (SingleCallMade /\ Ready)
    => \A i \in 1..Len(tasks) :
          LET sks == KeysOf(tasks[i].k)
              bound == [n \in {sks[j].feature_name : j \in 1..Len(sks)} |->
                          KeyValue(sks[CHOOSE j \in 1..Len(sks) :
                                           sks[j].feature_name = n], last.entry)]
          IN  /\ tasks[i].bind_params = bound
              /\ tasks[i].st = "done"
                     => SeqToSet(tasks[i].rows) = QueryRows(tasks[i].stmt, bound)

\* the entry {"id": 1} bound join position 1, whose required serving key is
\* "r_id", by the bare feature name, and the row came back
C8_Witness ==
    /\ SingleCallMade /\ last.phase = "done" /\ last.exc = ""
    /\ DOMAIN last.entry = {"id"} /\ last.entry["id"] = "1"
    /\ \E i \in 1..Len(tasks) :
           /\ tasks[i].k = 1
           /\ KeysOf(1)[1].required_serving_key = "r_id"
           /\ tasks[i].bind_params = [id |-> "1"]
    /\ "r_f" \in DOMAIN last.ret /\ last.ret["r_id"] = "1"

\* C9: a single-entry call whose entry has only list values fails with the
\* ValueError about batch retrieval, before key validation and with no query
\* submitted; an entry with a value that is no list never fails with it
C9_ListEntryRejected ==
    SingleCallMade
    => /\ (\A k \in DOMAIN last.entry : last.entry[k] \in Lists)
              => /\ last.phase = "done"
                 /\ last.exc = "ValueError" /\ last.msg = ShapeMessage
                 /\ last.err_key = ""
                 /\ tasks = << >> /\ last.dispatched = {}
       /\ HasScalar(last.entry) => last.msg # ShapeMessage

\* an entry of lists with a key that is no serving key was rejected for its
\* shape, on a client that validates keys
C9_Witness ==
    /\ SingleCallMade /\ last.phase = "done"
    /\ DOMAIN last.entry = {"id", "zz"}
    /\ \A k \in DOMAIN last.entry : last.entry[k] \in Lists
    /\ client.valid_serving_key.kind = "set"
    /\ last.exc = "ValueError" /\ last.msg = ShapeMessage


\* the concatenation of a list of lists
RECURSIVE Flatten(_)
Flatten(ss) == IF ss = << >> THEN << >> ELSE Head(ss) \o Flatten(Tail(ss))

\* a batch call returned normally
BatchReturned == last.op = "batch" /\ last.phase = "done" /\ last.exc = ""

\* the join positions of the statements the call reads, in the order of the
\* registry
RegistryOrder == IF CallObjects.kind = "dict" THEN DictKeys(CallObjects.v) ELSE << >>

\* C17: the second value a batch call returns is the concatenation, over the
\* join positions for which the call executed a query and in the order of the
\* registry, of the position's serving-key list; no serving key of a position
\* that was not executed is in it
C17_ServingKeysOfExecutedPositions ==
    BatchReturned
    => LET executed == SelectSeq(RegistryOrder, LAMBDA p : p \in last.dispatched)
       IN  /\ last.ret_keys = Flatten([i \in 1..Len(executed) |-> KeysOf(executed[i])])
           /\ \A p \in SeqToSet(DictKeys(client.serving_key_by_serving_index.v)) :
                  p \notin last.dispatched
                      => \A j \in 1..Len(KeysOf(p)) :
                         \A m \in 1..Len(last.ret_keys) :
                             last.ret_keys[m] # KeysOf(p)[j]

\* on a feature view whose join position 1 is served elsewhere, a batch call
\* with an entry executed position 0 alone and returned its one serving key
C17_Witness ==
    /\ BatchReturned
    /\ Len(last.entries) >= 1
    /\ last.dispatched = {0}
    /\ DictHas(client.serving_key_by_serving_index.v, 1)
    /\ last.ret_keys = <<ServingKey("id", "id", 0, "")>>

\* init_prepared_statement never completed on the client: it is new, or the
\* one call made on it raised part-way
NeverInitialized == client \in {NewClient, AfterInit("fvA", TRUE)}

\* C20: a serving call on a client on which init_prepared_statement never
\* completed ends with an error, and no query was submitted or dispatched
C20_UninitializedFailsFast ==
    (/\ last.op \in {"single", "batch"}
     /\ last.phase \in {"running", "done"}
     /\ NeverInitialized)
    => /\ last.phase = "done"
       /\ last.exc # ""
       /\ tasks = << >>
       /\ last.dispatched = {}

\* the vector that results from writing the rows one after the other, a later
\* value of a name replacing an earlier one
LastWins(rows) ==
    LET names == UNION {DOMAIN rows[j] : j \in 1..Len(rows)}
        LastOf(n) == CHOOSE j \in 1..Len(rows) :
                         /\ n \in DOMAIN rows[j]
                         /\ \A m \in (j + 1)..Len(rows) : n \notin DOMAIN rows[m]
    IN  [n \in names |-> rows[LastOf(n)][n]]

\* the key tuple of a row of the query task t: its values under the prefix of
\* the task's join position followed by the feature name of each serving key
RowKey(t, r) ==
    LET sks == KeysOf(tasks[t].k)
        prefix == DictAt(client.prefix_by_serving_index.v, tasks[t].k)
    IN  [j \in 1..Len(sks) |-> Get(r, prefix \o sks[j].feature_name)]

\* the key tuple of an entry for the query task t, as `e.get(required) or
\* e.get(feature_name)` gives it
EntryKeyByOr(t, e) ==
    LET sks == KeysOf(tasks[t].k)
    IN  [j \in 1..Len(sks) |->
            IF Get(e, sks[j].required_serving_key) \in {None, "0", "", "[]"}
            THEN Get(e, sks[j].feature_name)
            ELSE Get(e, sks[j].required_serving_key)]

\* the rows of the query tasks whose key tuple is the one EntryKey gives for
\* the entry, in the order of the tasks and then of each result set
RowsFor(e, EntryKey(_, _)) ==
    Flatten([t \in 1..Len(tasks) |->
                SelectSeq(tasks[t].rows, LAMBDA r : RowKey(t, r) = EntryKey(t, e))])

\* every join position of the registry the batch call reads has its prefix
PrefixesKnown ==
    /\ client.prefix_by_serving_index.kind = "dict"
    /\ \A i \in 1..Len(RegistryOrder) :
           DictHas(client.prefix_by_serving_index.v, RegistryOrder[i])

\* the call ended, it was not rejected before it submitted its queries, and
\* every query returned its rows
QueriesAnswered ==
    /\ last.phase = "done"
    /\ tasks # << >> \/ last.exc = ""
    /\ \A t \in 1..Len(tasks) : tasks[t].st = "done"

\* C21: the query tasks of a call stand in the order of the statement
\* registry; a single-entry call that returns gives the vector in which every
\* name has the value of the last row that provides it, in the order of the
\* tasks and then of the rows of each result set, whatever the order in which
\* the queries completed; every slot of a batch call that returns is that
\* vector over the rows whose key tuple is the entry's; no error is raised
\* for a name provided twice
C21_LastRowProcessedWins ==
    /\ (last.op \in {"single", "batch"} /\ last.phase \in {"running", "done"}
            /\ CallObjects.kind = "dict")
          => [t \in 1..Len(tasks) |-> tasks[t].k]
                 = SelectSeq(RegistryOrder,
                             LAMBDA p : \E t \in 1..Len(tasks) : tasks[t].k = p)
    /\ (SingleCallMade /\ QueriesAnswered)
          => /\ last.exc = ""
             /\ last.ret = LastWins(Flatten([t \in 1..Len(tasks) |-> tasks[t].rows]))
    /\ (last.op = "batch" /\ QueriesAnswered /\ Ready /\ PrefixesKnown)
          => /\ last.exc = ""
             /\ Len(last.ret_list) = Len(last.entries)
             /\ \A i \in 1..Len(last.entries) :
                    last.ret_list[i] = LastWins(RowsFor(last.entries[i], EntryKeyByOr))

\* on the view whose two join positions both provide id and f, the query of
\* position 1 completed before the query of position 0 and returned two rows;
\* the vector has the f of the second row of position 1
C21_Witness ==
    /\ SingleCallMade /\ last.phase = "done" /\ last.exc = "" /\ ~last.helper
    /\ Len(tasks) = 2
    /\ last.completed = <<1, 0>>
    /\ Len(tasks[1].rows) = 1 /\ tasks[1].rows[1]["f"] = "f30/1"
    /\ Len(tasks[2].rows) = 2
    /\ tasks[2].rows[1]["f"] = "f31/1b" /\ tasks[2].rows[2]["f"] = "f31/1"
    /\ last.ret["f"] = "f31/1" /\ last.ret["ts"] = "1"

\* a batch call's slot for the entry {id: 1, ts: 1} has the f of the last row
\* of position 1, the first one of its two rows
C21_SlotReached ==
    /\ client = Setup("fvC", {}, FALSE, TRUE)
    /\ last.op = "batch" /\ QueriesAnswered /\ ~last.helper /\ Len(tasks) = 2
    /\ Len(tasks[2].rows) = 2 /\ tasks[2].rows[2]["f"] = "f31/1b"
    /\ Len(last.ret_list) >= 1
    /\ "ts" \in DOMAIN last.ret_list[1] /\ last.ret_list[1]["f"] = "f31/1b"

\* the key tuple of an entry for the query task t: for each serving key the
\* value under required_serving_key when the entry has that name, otherwise
\* the value under feature_name
EntryKeyByPresence(t, e) ==
    LET sks == KeysOf(tasks[t].k)
    IN  [j \in 1..Len(sks) |-> KeyValue(sks[j], e)]

\* C25: in a batch call that returns, the slot of every entry is made of the
\* rows, of every executed join position, whose key tuple under the position's
\* prefix and the feature names of its ordered serving keys is the entry's
\* tuple of values under required_serving_key or else feature_name, and of no
\* other row; a position with no such row adds nothing, and no error is raised
C25_RowsMergedByKeyTuple ==
    (last.op = "batch" /\ QueriesAnswered /\ Ready /\ PrefixesKnown)
    => /\ last.exc = ""
       /\ Len(last.ret_list) = Len(last.entries)
       /\ \A i \in 1..Len(last.entries) :
              i <= Len(last.ret_list)
              => last.ret_list[i] = LastWins(RowsFor(last.entries[i], EntryKeyByPresence))

\* a batch call was made and has not been forgotten
BatchCallMade == last.op = "batch" /\ last.phase \in {"running", "done"}

\* C26: for every entry and join position of a batch call, the key tuple bound
\* holds for each serving key the value under required_serving_key when the
\* entry has that name and otherwise the value under feature_name, values such
\* as 0 included: the values the single-entry path binds for that entry
C26_BatchBindsAsSingle ==
    (BatchCallMade /\ Ready)
    => \A t \in 1..Len(tasks) :
       \A i \in 1..Len(last.entries) :
          LET sks == KeysOf(tasks[t].k)
              bound == tasks[t].bind_params["batch_ids"][i]
              single == ResolveKeys(sks, last.entries[i], EmptyDict)
          IN  /\ Len(bound) = Len(sks)
              /\ \A j \in 1..Len(sks) :
                     /\ bound[j] = KeyValue(sks[j], last.entries[i])
                     /\ ~single.skip => bound[j] = single.pk_entry[sks[j].feature_name]

\* the keys of the entries of the batch call outside the valid-serving-key set
UnknownBatchKeys ==
    UNION {UnknownKeys(last.entries[i]) : i \in 1..Len(last.entries)}

\* C27: a batch call with an entry that has a key outside the
\* valid-serving-key set fails with the ValueError that names such a key, and
\* no query is submitted or dispatched
C27_BatchUnknownKeyRejected ==
    (BatchCallMade /\ client.valid_serving_key.kind = "set" /\ UnknownBatchKeys # {})
    => /\ last.phase = "done"
       /\ last.exc = "ValueError"
       /\ last.err_key \in UnknownBatchKeys
       /\ tasks = << >> /\ last.dispatched = {}

\* the maps of the client that the serving calls read
ServingMaps(c) ==
    <<c.prepared_statements, c.batch_prepared_statements,
      c.helper_column_prepared_statements,
      c.batch_helper_column_prepared_statements,
      c.serving_key_by_serving_index, c.prefix_by_serving_index,
      c.valid_serving_key>>

\* a step of a serving call: the call starts, one of its queries moves, the
\* call returns or raises
ServingStep == last' # last \/ tasks' # tasks

\* a single-entry call for a feature vector starts and submits its queries
StartsQueries ==
    /\ last.phase = "idle" /\ last'.phase = "running"
    /\ last'.op = "single" /\ ~last'.helper
    /\ client.batch_prepared_statements.kind = "dict"

\* the join positions initialization registered a statement for; the batch map
\* has the positions of the single-entry map, and no single-entry call reads it
RegisteredPositions == SeqToSet(DictKeys(client.batch_prepared_statements.v))

\* the entry of the starting call gives every serving key of the position
Resolvable(p) ==
    \A j \in 1..Len(KeysOf(p)) : KeyPresent(KeysOf(p)[j], last'.entry)

\* C34: every step of a serving call, single or batch, ending well or by an
\* error, leaves the statement maps, serving_key_by_serving_index,
\* prefix_by_serving_index and the valid-key set of the client as they were;
\* and whatever calls came before, a single-entry call that starts queries
\* every registered join position whose serving keys its entry gives, so a
\* position an earlier call skipped is queried again
C34_ServingCallsKeepMaps ==
    [][ServingStep
       => /\ ServingMaps(client') = ServingMaps(client)
          /\ StartsQueries
             => \A p \in RegisteredPositions :
                    Resolvable(p) => \E i \in 1..Len(tasks') : tasks'[i].k = p]_vars

\* a single-entry call skipped join position 0 for want of its serving key,
\* queried position 1 and returned, and both positions are still registered
\* with their statements and serving keys
C34_Witness ==
    /\ SingleCallMade /\ last.phase = "done" /\ last.exc = "" /\ ~last.helper
    /\ DOMAIN last.entry = {"r_id"}
    /\ {tasks[i].k : i \in 1..Len(tasks)} = {1}
    /\ client.prepared_statements.kind = "dict"
    /\ SeqToSet(DictKeys(client.prepared_statements.v)) = {0, 1}
    /\ SeqToSet(DictKeys(client.serving_key_by_serving_index.v)) = {0, 1}

---------------------------------------------------------------------------
(* Properties of parallel execution (SpecExecute) *)

\* a direct call of _execute_prep_statements was made
ExecuteCalled == last.op = "execute" /\ last.phase \in {"running", "done"}

\* the join positions present in both maps of the call
InBothMaps == SeqToSet(DictKeys(last.stmts_in)) \cap SeqToSet(DictKeys(last.binds_in))

\* C23: _execute_prep_statements creates exactly one query task for every
\* join position present in both the statements map and the bound-values map,
\* and none for a position present in one map only; no query is dispatched
\* for another position; the call raises only the error of a failed query,
\* so that a position the statements map lacks makes no error
C23_OneQueryPerCommonPosition ==
    ExecuteCalled
    => /\ {tasks[t].k : t \in 1..Len(tasks)} = InBothMaps
       /\ Len(tasks) = Cardinality(InBothMaps)
       /\ last.dispatched \subseteq InBothMaps
       /\ (last.phase = "done" /\ last.exc # "")
             => \E t \in 1..Len(tasks) : tasks[t].st = "failed"
       /\ (last.phase = "done" /\ \A t \in 1..Len(tasks) : tasks[t].st = "done")
             => last.exc = ""

\* a call with statements for positions 0 and 1 and bound values for positions
\* 2 and 1 returned: position 1 alone was queried
C23_Witness ==
    /\ ExecuteCalled /\ last.phase = "done" /\ last.exc = ""
    /\ DictKeys(last.stmts_in) = <<0, 1>>
    /\ DictKeys(last.binds_in) = <<2, 1>>
    /\ Len(tasks) = 1 /\ tasks[1].k = 1 /\ last.dispatched = {1}
    /\ DictKeys(last.ret_dict) = <<1>>

\* C24: the map _execute_prep_statements returns has the join positions
\* present in both maps, and holds for each of them the rows the store selects
\* for that position's statement under that position's bind values, each row
\* once, in whatever order the queries completed
C24_ResultsKeyedByPosition ==
    (ExecuteCalled /\ last.phase = "done" /\ last.exc = "")
    => /\ SeqToSet(DictKeys(last.ret_dict)) = InBothMaps
       /\ Len(last.ret_dict) = Cardinality(InBothMaps)
       /\ \A p \in InBothMaps :
              LET rows == DictAt(last.ret_dict, p)
                  selected == QueryRows(DictAt(last.stmts_in, p),
                                        DictAt(last.binds_in, p))
              IN  /\ SeqToSet(rows) = selected
                  /\ Len(rows) = Cardinality(selected)

\* the query of position 1 completed before the query of position 0; the map
\* returned has the row of id 1 under position 0 and no row under position 1,
\* whose bind value 2 is the id of no stored row
C24_Witness ==
    /\ ExecuteCalled /\ last.phase = "done" /\ last.exc = ""
    /\ last.completed = <<1, 0>>
    /\ DictKeys(last.ret_dict) = <<0, 1>>
    /\ DictAt(last.binds_in, 0) = [id |-> "1"]
    /\ DictAt(last.binds_in, 1) = [id |-> "2"]
    /\ Len(DictAt(last.ret_dict, 0)) = 1
    /\ DictAt(last.ret_dict, 0)[1]["f"] = "f10/1"
    /\ DictAt(last.ret_dict, 1) = << >>

---------------------------------------------------------------------------
(* Properties of serving calls on a position without serving keys (SpecLabel) *)

\* a statement is registered for a join position that has no entry in
\* serving_key_by_serving_index
UnkeyedPositions ==
    {p \in SeqToSet(DictKeys(client.prepared_statements.v)) :
        ~DictHas(client.serving_key_by_serving_index.v, p)}

\* the join positions the call in progress submitted a query for
QueriedPositions == {tasks[i].k : i \in 1..Len(tasks)}

\* the batch call leaves the positions without serving keys out, raises no
\* error for them, and queries every other position
BatchSkipsUnkeyedPosition ==
    (BatchCallMade /\ UnkeyedPositions # {})
    => /\ last.exc \notin {"KeyError", "TypeError", "AttributeError"}
       /\ QueriedPositions
              = SeqToSet(DictKeys(client.batch_prepared_statements.v))
                    \ UnkeyedPositions

\* C36: a single-entry call with a valid entry, on a client that has a
\* registered join position without serving keys, raises no KeyError, leaves
\* that position out, and queries every other position whose serving keys the
\* entry gives, as the batch call does
C36_SingleSkipsUnkeyedPosition ==
    (/\ SingleCallMade /\ UnkeyedPositions # {}
     /\ HasScalar(last.entry) /\ UnknownKeys(last.entry) = {})
    => /\ last.exc # "KeyError"
       /\ QueriedPositions
              = {p \in SeqToSet(DictKeys(client.prepared_statements.v))
                           \ UnkeyedPositions :
                    \A j \in 1..Len(KeysOf(p)) : KeyPresent(KeysOf(p)[j], last.entry)}

\* a batch call of one entry queried position 0 alone and returned one vector
BatchSkippedAndReturned ==
    /\ BatchCallMade /\ last.phase = "done" /\ last.exc = ""
    /\ UnkeyedPositions = {1}
    /\ QueriedPositions = {0}
    /\ Len(last.ret_list) = 1 /\ last.ret_list[1] # EmptyDict

---------------------------------------------------------------------------
(* Properties of re-initialization concurrent with serving calls (SpecReinit) *)

\* init_prepared_statement is between two of its statements
Reinitializing == hist.pc \notin {0, 157}

\* the feature groups the statements of a map or list read
TablesOf(attr) == {attr.v[i].v.table : i \in 1..Len(attr.v)}

\* the statements executed one by one leave what init_prepared_statement leaves
ReinitStepsAreTheMethod ==
    hist.pc = 157 =>
        /\ client = init_prepared_statement(hist.before, hist.entity, hist.external,
                                            hist.inference_helper_columns, 0).c
        /\ hist.exc = init_prepared_statement(hist.before, hist.entity, hist.external,
                                              hist.inference_helper_columns, 0).exc

\* C31: nothing guards re-initialization. While init_prepared_statement is
\* between two of its statements a serving call may start and the
\* initialization may go on whatever the serving call does; and between those
\* statements the registry is torn: after the new statements were fetched the
\* batch statements are still the previous ones, and after line 137 stored the
\* new statement map the serving keys, the valid keys and the prefixes are
\* still those of the previous initialization.
C31_ReinitUnguarded ==
    /\ (Reinitializing /\ last.phase = "idle") =>
           ENABLED (\E entry \in ReinitEntries : get_single_feature_vector(entry))
    /\ Reinitializing => ENABLED ReinitStep
    /\ hist.pc \in {89, 106} =>
           /\ client.prepared_statements =
                  ListV(ApiStatements(hist.entity, FALSE, FALSE))
           /\ client.batch_prepared_statements = hist.before.batch_prepared_statements
    /\ hist.pc = 141 =>
           /\ client.prepared_statements.kind = "dict"
           /\ TablesOf(client.prepared_statements) =
                  {ApiStatements(hist.entity, FALSE, FALSE)[i].feature_group_id :
                      i \in 1..Len(ApiStatements(hist.entity, FALSE, FALSE))}
           /\ client.serving_key_by_serving_index =
                  hist.before.serving_key_by_serving_index
           /\ client.valid_serving_key = hist.before.valid_serving_key
           /\ client.prefix_by_serving_index = hist.before.prefix_by_serving_index

\* a single-entry call made while the re-initialization for "fvC" stood before
\* line 141 returned: it ran the new statement of join position 1 (feature
\* group 31) with the key r_id, which only the previous view "fvA" declares
C31_Witness ==
    /\ hist.pc = 141
    /\ hist.entity = "fvC"
    /\ last.op = "single"
    /\ last.phase = "done"
    /\ last.exc = ""
    /\ last.entry = [r_id |-> "1"]
    /\ Len(tasks) = 1
    /\ tasks[1].stmt.table = 31
    /\ tasks[1].bind_params = [id |-> "1"]
    /\ last.ret # EmptyDict

---------------------------------------------------------------------------
(* Properties of serving calls with unanswered queries (SpecHang) *)

\* a query of the call was left unanswered
SomeQueryHung == \E i \in 1..Len(tasks) : tasks[i].st = "hung"

\* C32: a serving call one of whose queries never completes never ends,
\* whatever its other queries do
C32_HungQueryBlocksCall ==
    SomeQueryHung => last.phase # "done"

\* a call with an unanswered query ends only by raising the error of another
\* of its queries; it returns no result
HungCallEndsOnlyByRaising ==
    (SomeQueryHung /\ last.phase = "done")
    => /\ last.exc # ""
       /\ \E i \in 1..Len(tasks) : tasks[i].st = "failed" /\ tasks[i].exc = last.exc
       /\ last.ret = EmptyDict /\ last.ret_list = << >>

\* a call with an unanswered query and no failed query is still waiting
HungCallWaits ==
    /\ SomeQueryHung
    /\ last.phase = "running"
    /\ \E i \in 1..Len(tasks) : tasks[i].st = "done"
    /\ \A i \in 1..Len(tasks) : tasks[i].st \in {"done", "hung"}

---------------------------------------------------------------------------
(* Properties of serving calls on a small pool (SpecPool) *)

\* the query tasks that hold a connection
Holding == {i \in 1..Len(tasks) : tasks[i].st = "acquired"}

\* every connection is free or held by one task, and a finished task holds none
ConnectionsConserved ==
    /\ pool >= 0
    /\ pool + Cardinality(Holding) = PoolSizeOf(client)

\* C33: with a pool of any size, every query task of a serving call eventually
\* finishes
C33_EveryTaskFinishes ==
    (last.phase = "running") ~> (\A i \in 1..Len(tasks) : Finished(tasks[i]))

\* a serving call in progress ends, whatever the size of the pool
PoolCallEnds == (last.phase = "running") ~> (last.phase = "done")

\* while no query has failed the waiting tasks are served: a call none of
\* whose queries fails returns, every task done
QueuedTasksAreServed ==
    (last.phase = "running")
        ~> (\/ last.phase = "done" /\ \A i \in 1..Len(tasks) : tasks[i].st = "done"
            \/ \E i \in 1..Len(tasks) : tasks[i].st = "failed")

\* what a call returns is what the store answered, by join position: the size of
\* the pool has no part in it
ResultIgnoresPool ==
    (last.phase = "done" /\ last.exc = "" /\ last.op = "single")
    => /\ \A i \in 1..Len(tasks) :
             /\ tasks[i].st = "done"
             /\ tasks[i].rows \in Orderings(QueryRows(tasks[i].stmt, tasks[i].bind_params))
       /\ last.ret = AssembleSingle([i \in 1..Len(tasks) |->
                                        [k |-> tasks[i].k, v |-> tasks[i].rows]], EmptyDict)

\* a call with two queries on a pool of one connection returned both results
SmallPoolReturned ==
    /\ PoolSizeOf(client) = 1
    /\ last.phase = "done" /\ last.exc = ""
    /\ Len(tasks) = 2
    /\ \A i \in 1..Len(tasks) : tasks[i].st = "done"

---------------------------------------------------------------------------
(* Properties of the health check (SpecRefresh) *)

\* the registry of the client was built: the statements are compiled and the
\* valid-key set exists
RegistryBuilt ==
    /\ client.prepared_statements.kind = "dict"
    /\ client.valid_serving_key.kind = "set"

\* C16: on a client whose registry was built, refresh_mysql_connection returns
\* with the client holding an engine that connects: a new one when the engine
\* it held reported a closed connection, the same one when it connected
C16_RefreshLeavesUsableEngine ==
    (last.op = "refresh" /\ last.phase = "done" /\ RegistryBuilt)
    => LET before == last.engine_before
           now == client.prepared_statement_engine
       IN  /\ last.exc = ""
           /\ now.kind = "engine"
           /\ ~now.v[2]
           /\ (before.kind = "engine" /\ before.v[2]) => now.v[1] # before.v[1]
           /\ (before.kind = "engine" /\ ~before.v[2]) => now.v = before.v

---------------------------------------------------------------------------
(* Properties of the REST engine (SpecRest) *)

Answered == rest.phase = "done" /\ rest.sent = 1 /\ rest.exc # "RestAPIError"

\* the call converts the answer to feature-value dicts
Converting == rest.return_type = RETURN_TYPE_FEATURE_VALUE_DICT

\* the feature names an engine declares: those of the features that are no
\* label, no inference helper, no training helper, and not skipped
DeclaredNames(engine) ==
    {engine.features[i].name :
        i \in {j \in 1..Len(engine.features) :
                  LET feat == engine.features[j] IN
                  /\ ~feat.label
                  /\ ~feat.inference_helper_column
                  /\ ~feat.training_helper_column
                  /\ feat.index \notin engine.skip_fg_ids}}

\* the mapping has exactly these names as keys, each once, every value None
AllNone(d, names) ==
    /\ {d[i].k : i \in 1..Len(d)} = names
    /\ Len(d) = Cardinality(names)
    /\ \A i \in 1..Len(d) : d[i].v = RNone

TimestampColumns ==
    LET row == rest.response.v
        ordered == rest.engine.ordered_feature_names_and_dtypes
    IN  {i \in 1..Len(row) :
            /\ i <= Len(ordered)
            /\ ordered[i].dtype = "timestamp"
            /\ row[i] # RNone}

\* a datetime with no timezone and every field in its range
IsNaiveDatetime(d) ==
    /\ d.ty = "datetime"
    /\ Len(d.v) = 7
    /\ d.v[2] \in 1..12 /\ d.v[3] \in 1..DaysInMonth(d.v[1], d.v[2])
    /\ d.v[4] \in 0..23 /\ d.v[5] \in 0..59 /\ d.v[6] \in 0..59
    /\ d.v[7] \in 0..999999

\* C13: a timestamp value that is an int is converted to the timezone-naive
\* datetime that many milliseconds after the epoch in UTC, one that is a str in
\* the pattern %Y-%m-%d %H:%M:%S to the datetime of its fields, so that
\* 1705314600000 and '2024-01-15 10:30:00' give the same datetime; a value of
\* another type (float, object) raises ValueError
C13_TimestampByType ==
    (Answered /\ Converting /\ rest.op = "single" /\ rest.response.kind = "list")
    => LET row == rest.response.v
           ordered == rest.engine.ordered_feature_names_and_dtypes
       IN  /\ (\E i \in TimestampColumns : row[i].ty \notin {"int", "str"})
                  => rest.exc = "ValueError"
           /\ rest.exc = ""
                  => \A i \in TimestampColumns :
                        LET d == DictAt(rest.ret.v, ordered[i].name) IN
                        /\ IsNaiveDatetime(d)
                        /\ row[i].ty = "int"
                               => convert_event_time_to_timestamp(d).v
                                      = MillisParts(row[i])
                        /\ row[i].ty = "str" => d.v = row[i].v \o <<0>>
                        /\ row[i] \in {RMillis(1705314600, 0),
                                       RStr(2024, 1, 15, 10, 30, 0)}
                               => d = RDatetime(2024, 1, 15, 10, 30, 0, 0)

\* the int 951786061500 came back as 2000-02-29 01:01:01.500000
C13_Witness ==
    /\ Answered /\ Converting /\ rest.op = "single" /\ rest.exc = ""
    /\ rest.response.kind = "list"
    /\ Len(rest.response.v) >= 2
    /\ rest.response.v[2] = RMillis(951786061, 500)
    /\ rest.ret.kind = "dict"
    /\ DictHas(rest.ret.v, "ts")
    /\ DictAt(rest.ret.v, "ts") = RDatetime(2000, 2, 29, 1, 1, 1, 500000)

C19_LengthMismatchRaises ==
    (/\ Answered /\ Converting /\ rest.op = "single"
     /\ rest.response.kind = "list"
     /\ Len(rest.response.v) # Len(rest.engine.ordered_feature_names_and_dtypes))
    => rest.exc = "ValueError"

\* the feature-value dict out pairs the values of the row with the declared
\* names in their order, up to the shorter of the two; a value whose declared
\* type is 'timestamp' and that is not None is replaced by a datetime, every
\* other value is the value of the row
PairedAndConvertedByType(row, out) ==
    LET ordered == rest.engine.ordered_feature_names_and_dtypes
        n == IF Len(row) < Len(ordered) THEN Len(row) ELSE Len(ordered)
    IN  /\ SeqToSet(DictKeys(out)) = {ordered[i].name : i \in 1..n}
        /\ \A i \in 1..n :
               IF ordered[i].dtype = "timestamp" /\ row[i] # RNone
               THEN DictAt(out, ordered[i].name).ty = "datetime"
               ELSE DictAt(out, ordered[i].name) = row[i]

\* a value of the row that is to be converted and cannot be
Unconvertible(row) ==
    LET ordered == rest.engine.ordered_feature_names_and_dtypes IN
    \E i \in 1..Len(row) :
        /\ i <= Len(ordered)
        /\ ordered[i].dtype = "timestamp" /\ row[i] # RNone
        /\ row[i].ty \notin {"int", "str"} \/ row[i] = RBadStr

\* C35: the feature-value dict made of an answered row pairs the i-th value
\* with the i-th declared feature name; the values under the declared type
\* 'timestamp' that are not None are converted, and every other value, None
\* under 'timestamp' and any value under another type included, is in the dict
\* as it was in the row; the conversion fails only on a value it was to convert
C35_ConvertsOnlyTimestamps ==
    (Answered /\ Converting)
    => IF rest.op = "single"
       THEN rest.response.kind = "list"
            => /\ rest.exc # "" <=> Unconvertible(rest.response.v)
               /\ rest.exc = ""
                      => PairedAndConvertedByType(rest.response.v, rest.ret.v)
       ELSE /\ rest.exc # ""
                <=> \E j \in 1..Len(rest.response.v) :
                        /\ rest.response.v[j] # NoneV
                        /\ Unconvertible(rest.response.v[j].v)
            /\ rest.exc = ""
                   => \A j \in 1..Len(rest.response.v) :
                          rest.response.v[j] # NoneV
                              => PairedAndConvertedByType(rest.response.v[j].v,
                                                          rest.ret.v[j])

\* the row (2, None, 0.0) under (id bigint, ts timestamp, f double) came back
\* as it was: None under the timestamp type, the int and the float unchanged
C35_Witness ==
    /\ Answered /\ Converting /\ rest.op = "single" /\ rest.exc = ""
    /\ rest.response = ListV(<<RInt(2), RNone, RFloat>>)
    /\ Len(rest.engine.ordered_feature_names_and_dtypes) = 3
    /\ rest.engine.ordered_feature_names_and_dtypes[2].dtype = "timestamp"
    /\ rest.ret = DictV(<<[k |-> "id", v |-> RInt(2)],
                          [k |-> "ts", v |-> RNone],
                          [k |-> "f", v |-> RFloat]>>)

---------------------------------------------------------------------------
(* Properties of initialization (SpecRegistry) *)

\* two records of init_prepared_statement calls with the same arguments
SameCall(a, b) ==
    /\ a.entity = b.entity
    /\ a.external = b.external
    /\ a.inference_helper_columns = b.inference_helper_columns
    /\ a.options = b.options

\* two attribute values are the same
SameValue(a, b) == a.kind = b.kind /\ a.v = b.v

\* the owner supplied the attributes, and the entity is one the backend knows
Supplied(call) ==
    /\ call.before.skip_fg_ids.kind = "set"
    /\ call.before.serving_keys.kind = "list"
    /\ call.entity \in FeatureViews \cup TrainingDatasets

\* the attributes that make up the registry
RegistryFields ==
    {"prepared_statements", "batch_prepared_statements",
     "helper_column_prepared_statements", "batch_helper_column_prepared_statements",
     "prefix_by_serving_index", "feature_name_order_by_psp",
     "serving_key_by_serving_index", "valid_serving_key"}

\* C4: after two init_prepared_statement calls in a row with the same
\* arguments, the single and batch statements are maps, every join position of
\* the statement map has its serving-key list, and the three are what the first
\* call left
C4_InitTwiceSameAsOnce ==
    (/\ Len(hist.inits) = 2
     /\ SameCall(hist.inits[1], hist.inits[2])
     /\ Supplied(hist.inits[1]))
    => LET once == hist.inits[1].after
           twice == hist.inits[2].after
       IN  /\ twice.prepared_statements.kind = "dict"
           /\ twice.batch_prepared_statements.kind = "dict"
           /\ \A i \in 1..Len(twice.prepared_statements.v) :
                  DictHas(twice.serving_key_by_serving_index.v,
                          twice.prepared_statements.v[i].k)
           /\ SameValue(twice.prepared_statements, once.prepared_statements)
           /\ SameValue(twice.batch_prepared_statements, once.batch_prepared_statements)
           /\ SameValue(twice.serving_key_by_serving_index,
                        once.serving_key_by_serving_index)

\* C5: after a second init_prepared_statement call, every attribute of the
\* registry is what the same call leaves on a client that was never initialized
C5_ReinitReplacesRegistry ==
    (/\ Len(hist.inits) = 2
     /\ Supplied(hist.inits[1]) /\ Supplied(hist.inits[2]))
    => LET b == hist.inits[2]
           fresh == init_prepared_statement(
                        [NewClient EXCEPT !.skip_fg_ids = b.before.skip_fg_ids,
                                          !.serving_keys = b.before.serving_keys],
                        b.entity, b.external, b.inference_helper_columns,
                        b.options).c
       IN  \A f \in RegistryFields : SameValue(b.after[f], fresh[f])

\* the attributes of the client other than the external flag
ClientAttributes == DOMAIN NewClient \ {"external"}

\* C14: an init_prepared_statement call with an entity that is neither a
\* FeatureView nor a TrainingDataset raises, and every attribute of the client
\* (the statements, the serving-key map, the prefix map, the valid-key set,
\* the connection pool, the external flag) is what it was before the call
C14_UnknownEntityChangesNothing ==
    \A i \in 1..Len(hist.inits) :
        LET call == hist.inits[i] IN
        (~(call.entity \in FeatureViews \/ call.entity \in TrainingDatasets))
        => /\ call.exc = "ValueError"
           /\ call.after.external = call.before.external
           /\ \A f \in ClientAttributes : SameValue(call.after[f], call.before[f])

\* a client that holds fetched statements and an external flag of TRUE was
\* initialized with such an entity and external=FALSE
C14_Witness ==
    \E i \in 1..Len(hist.inits) :
        LET call == hist.inits[i] IN
        /\ call.entity = "other" /\ ~call.external
        /\ call.exc = "ValueError"
        /\ call.before.prepared_statements.kind = "list"
        /\ call.before.external
        /\ call.after.prepared_statements.kind = "list"

\* the exceptions the initialization logic raises itself
RaisedByInitialization == {"ValueError"}

\* C15: an init_prepared_statement call with inference_helper_columns=True
\* for a TrainingDataset, for which there are no helper-column statements, on
\* a client to which the owner supplied the attributes,
\* fails with an error that the initialization logic raises, and raises for
\* that reason: the same call without the flag does not fail with it
C15_HelperStatementsUnavailable ==
    \A i \in 1..Len(hist.inits) :
        LET call == hist.inits[i] IN
        (/\ Supplied(call)
         /\ call.entity \in TrainingDatasets
         /\ call.inference_helper_columns)
        => /\ call.exc \in RaisedByInitialization
           /\ init_prepared_statement(call.before, call.entity, call.external,
                                      FALSE, call.options).exc # call.exc

\* the statements the backend serves for the entity of the call whose feature
\* group is not skipped: the retained join positions
Retained(call) ==
    SelectSeq(ApiStatements(call.entity, FALSE, FALSE),
              LAMBDA st : st.feature_group_id \notin call.before.skip_fg_ids.v)

\* the join positions of the retained statements
RetainedPositions(call) ==
    {Retained(call)[s].prepared_statement_index : s \in 1..Len(Retained(call))}

\* the join positions an attribute maps, when it holds a map
MapKeys(attr) == IF attr.kind = "dict" THEN SeqToSet(DictKeys(attr.v)) ELSE {}

\* the feature names of a list of serving keys, in the order of the list
FeatureNames(sks) == [j \in 1..Len(sks) |-> sks[j].feature_name]

\* C22: after an init_prepared_statement call on a client to which the owner
\* supplied the attributes, every retained join position whose statement
\* declares parameters has its serving-key list, and the feature names of the
\* list are in the order of the declared parameter indexes, the order in which
\* the statement's parameters are bound; so after every call made
C22_ServingKeysInParameterOrder ==
    \A i \in 1..Len(hist.inits) :
        LET call == hist.inits[i] IN
        Supplied(call)
        => \A s \in 1..Len(Retained(call)) :
              LET st == Retained(call)[s]
                  by_index == call.after.serving_key_by_serving_index.v
              IN  st.prepared_statement_parameters # << >>
                  => /\ DictHas(by_index, st.prepared_statement_index)
                     /\ FeatureNames(DictAt(by_index, st.prepared_statement_index))
                            = PkNames(st)

\* the attributes that map join positions
PerPositionMaps ==
    {"prepared_statements", "batch_prepared_statements",
     "prefix_by_serving_index", "feature_name_order_by_psp"}

\* C28: after an init_prepared_statement call on a client to which the owner
\* supplied the attributes, the single statements, the batch statements,
\* prefix_by_serving_index and feature_name_order_by_psp are maps whose join
\* positions are exactly those of the statements whose feature group is not
\* skipped
C28_SkippedPositionsDropped ==
    \A i \in 1..Len(hist.inits) :
        LET call == hist.inits[i] IN
        Supplied(call)
        => \A a \in PerPositionMaps :
              /\ call.after[a].kind = "dict"
              /\ MapKeys(call.after[a]) = RetainedPositions(call)

\* the place of the first '?' of a text, 0 when it has none
FirstPlaceholder(text) ==
    IF \E p \in 1..Len(text) : text[p] = Qm
    THEN CHOOSE p \in 1..Len(text) : text[p] = Qm /\ \A q \in 1..(p - 1) : text[q] # Qm
    ELSE 0

\* the bind parameters of a compiled text
BindParameters(text) == {p \in 1..Len(text) : text[p].t = ":"}

\* C29: an init_prepared_statement call on a client to which the owner
\* supplied the attributes completes, and leaves a batch statement map with
\* the join positions of the single statement map, those of the retained
\* statements; every batch statement has one bind parameter, batch_ids,
\* declared expanding, in the place of the first '?' of the fetched query
C29_BatchStatementPerPosition ==
    \A i \in 1..Len(hist.inits) :
        LET call == hist.inits[i]
            fetched == ApiStatements(call.entity, TRUE, FALSE)
        IN
        Supplied(call)
        => /\ call.exc = ""
           /\ call.after.batch_prepared_statements.kind = "dict"
           /\ MapKeys(call.after.batch_prepared_statements) = RetainedPositions(call)
           /\ MapKeys(call.after.batch_prepared_statements)
                  = MapKeys(call.after.prepared_statements)
           /\ \A s \in 1..Len(fetched) :
                  LET idx == fetched[s].prepared_statement_index
                      raw == fetched[s].query_online.where
                  IN  idx \in MapKeys(call.after.batch_prepared_statements)
                      => LET q == DictAt(call.after.batch_prepared_statements.v, idx)
                         IN  /\ q.expanding
                             /\ BindParameters(q.where) = {FirstPlaceholder(raw)}
                             /\ q.where[FirstPlaceholder(raw)] = Bind("batch_ids")

\* C30: an init_prepared_statement call on a client whose skipped feature
\* groups were supplied and whose serving keys are None completes; for every
\* retained statement and each of its parameters, the serving-key list of the
\* statement's join position has exactly one key with the parameter's name,
\* and that key has the statement's join position and prefix; the names of
\* the derived keys are the valid-key set
C30_ServingKeysDerived ==
    \A i \in 1..Len(hist.inits) :
        LET call == hist.inits[i]
            by_index == call.after.serving_key_by_serving_index.v
        IN
        (/\ call.before.skip_fg_ids.kind = "set"
         /\ call.before.serving_keys.kind = "None"
         /\ call.entity \in FeatureViews \cup TrainingDatasets)
        => /\ call.exc = ""
           /\ \A s \in 1..Len(Retained(call)) :
                  LET st == Retained(call)[s]
                      idx == st.prepared_statement_index
                      params == st.prepared_statement_parameters
                  IN  /\ DictHas(by_index, idx)
                      /\ Len(DictAt(by_index, idx)) = Len(params)
                      /\ \A m \in 1..Len(params) :
                             \E j \in 1..Len(DictAt(by_index, idx)) :
                                 LET sk == DictAt(by_index, idx)[j] IN
                                 /\ sk.feature_name = params[m].name
                                 /\ sk.join_index = idx
                                 /\ sk.prefix = st.prefix
           /\ call.after.valid_serving_key.kind = "set"
           /\ call.after.valid_serving_key.v
                  = UNION {{Retained(call)[s].prepared_statement_parameters[m].name :
                               m \in 1..Len(Retained(call)[s].prepared_statement_parameters)}
                           : s \in 1..Len(Retained(call))}

\* the batch helper statements were given to the setter of the property, by the
\* caller or by initialization with helper columns, and are parametrized
BatchHelperMapSet == client.batch_helper_column_prepared_statements.kind = "dict"

\* C37: once the batch helper statements are set, reading the property
\* batch_helper_column_prepared_statements gives that batch map, whatever was
\* set before or after on the single-entry helper property
C37_GetterReadsBatchHelperMap ==
    BatchHelperMapSet
    => batch_helper_column_prepared_statements(client)
           = client.batch_helper_column_prepared_statements

---------------------------------------------------------------------------
(* Properties of statement compilation (SpecCompile) *)

\* the '?' of the text among its first p tokens
PlaceholdersUpTo(text, p) == Cardinality({q \in 1..p : text[q] = Qm})

\* the name of the parameter with the i-th smallest index
NameOfRank(params, i) ==
    params[CHOOSE j \in 1..Len(params) :
               Cardinality({m \in 1..Len(params) :
                               params[m].index < params[j].index}) = i - 1].name

\* the text of the statement with its i-th '?' from the left replaced by ':'
\* and the name of the parameter with the i-th smallest index, and every line
\* break by nl
NamedText(st, nl) ==
    LET text == st.query_online.where IN
    [p \in 1..Len(text) |->
        IF text[p] = Qm
        THEN Bind(NameOfRank(st.prepared_statement_parameters,
                             PlaceholdersUpTo(text, p)))
        ELSE IF text[p] = Nl THEN nl ELSE text[p]]

\* the step compiles the fetched single-entry statements, and for every
\* statement compiled that has as many '?' as parameters the compiled text is
\* NamedText with line breaks as nl
CompiledAs(nl) ==
    (client.prepared_statements.kind = "list"
        /\ client'.prepared_statements.kind = "dict")
    => \A s \in 1..Len(client.prepared_statements.v) :
          LET st == client.prepared_statements.v[s]
              text == st.query_online.where
          IN  (/\ st.feature_group_id \notin client.skip_fg_ids.v
               /\ PlaceholdersUpTo(text, Len(text))
                      = Len(st.prepared_statement_parameters))
              => /\ DictHas(client'.prepared_statements.v, st.prepared_statement_index)
                 /\ DictAt(client'.prepared_statements.v,
                           st.prepared_statement_index).where = NamedText(st, nl)

\* C11 as stated: non-batch compilation replaces the i-th '?' from the left by
\* ':' and the name of the parameter with the i-th smallest index, and leaves
\* all other text unchanged
C11_OtherTextUnchanged == [][CompiledAs(Nl)]_vars

\* C11, line breaks apart: non-batch compilation replaces the i-th '?' from the
\* left by ':' and the name of the parameter with the i-th smallest index,
\* replaces every line break by a blank, and leaves all other text unchanged
C11_PlaceholdersNamedByIndex == [][CompiledAs(Sp)]_vars

\* a statement whose parameters the backend listed as c, a, b was compiled to
\* '... a = :a AND b = :b AND c = :c', the line break before it now a blank
C11_Witness ==
    /\ client.prepared_statements.kind = "dict"
    /\ client.batch_prepared_statements.kind = "list"
    /\ LET params == client.batch_prepared_statements.v[1].prepared_statement_parameters
       IN  /\ Len(params) = 3
           /\ <<params[1].name, params[2].name, params[3].name>> = <<"c", "a", "b">>
    /\ DictHas(client.prepared_statements.v, 0)
    /\ DictAt(client.prepared_statements.v, 0).where =
           <<Sp, Col("a"), Bind("a"), Col("b"), Bind("b"), Col("c"), Bind("c")>>

=============================================================================
